---- MODULE Spec2Model ----
(***************************************************************************)
(* A model of the macro expansion engine (vm/src/macros.rs) and of the     *)
(* compilation query engine (src/query.rs).                                *)
(*                                                                         *)
(* Names are sequences of one-character strings, so that ends_with('!'),   *)
(* the stripping of the marker and the '@' prefix are computed on the      *)
(* characters.  Expressions are nested records; a site is the path (the    *)
(* sequence of child indices) from the root to the node, which is what a   *)
(* `&mut SpannedExpr` of the worklist designates.                          *)
(***************************************************************************)
EXTENDS Integers, Sequences, FiniteSets, TLC

(***************************************************************************)
(* Bounds of the model.                                                    *)
(***************************************************************************)
\* The largest number of top-level items of an input expression.
MaxItems == 2

\* The span of `Default::default()` (an empty span at offset 0).
DefaultSpan == 0

(***************************************************************************)
(* Expressions: SpannedExpr<Symbol>.                                       *)
(***************************************************************************)
Node(span, kind, name, implicit, binds, kids) ==
    [span |-> span, kind |-> kind, name |-> name, implicit |-> implicit,
     binds |-> binds, kids |-> kids]

Literal(span) == Node(span, "Literal", <<>>, 0, <<>>, <<>>)

Ident(span, name) == Node(span, "Ident", name, 0, <<>>, <<>>)

\* Expr::App { implicit_args, func, args }: kids[1] is func, the rest args;
\* implicit is the number of implicit arguments.
App(span, implicit, func, args) ==
    Node(span, "App", <<>>, implicit, <<>>, <<func>> \o args)

Block(span, kids) == Node(span, "Block", <<>>, 0, <<>>, kids)

\* Expr::TypeBindings(binds, body): kids[1] is the body.
TypeBindings(span, binds, body) ==
    Node(span, "TypeBindings", <<>>, 0, binds, <<body>>)

\* Expr::LetBindings(ValueBindings::Recursive(bindings), body).
LetBindings(span, bindings, body) ==
    Node(span, "LetBindings", <<>>, 0, bindings, <<body>>)

\* pos::spanned(span, Expr::Error(None))
ErrorExpr(span) == Node(span, "Error", <<>>, 0, <<>>, <<>>)

\* Expr::MacroExpansion { original, replacement }
MacroExpansion(span, original, replacement) ==
    Node(span, "MacroExpansion", <<>>, 0, <<>>, <<original, replacement>>)

\* pos::spanned(span, err)
Spanned(span, err) == [span |-> span, value |-> err]

RECURSIVE GetAt(_, _)
\* The node a path designates.
GetAt(e, path) ==
    IF path = <<>> THEN e ELSE GetAt(e.kids[Head(path)], Tail(path))

RECURSIVE PutAt(_, _, _)
\* The expression with the node a path designates overwritten (`*expr = ...`).
PutAt(e, path, new) ==
    IF path = <<>> THEN new
    ELSE [e EXCEPT !.kids[Head(path)] = PutAt(e.kids[Head(path)], Tail(path), new)]

(***************************************************************************)
(* Names.                                                                  *)
(***************************************************************************)
\* id.name.as_ref().ends_with('!')
ends_with_bang(name) == Len(name) > 0 /\ name[Len(name)] = "!"

\* &name[..name.len() - 1]
strip_bang(name) == SubSeq(name, 1, Len(name) - 1)

(***************************************************************************)
(* The input expressions.                                                  *)
(***************************************************************************)
MacroA == <<"a", "!">>

CallNames == {MacroA, <<"b", "!">>, <<"f">>}

\* The k-th top-level item: a call `name ?implicit arg`, whose argument is a
\* literal or a nested call of the macro a!.
Item(k, name, implicit, nested) ==
    App(10 * k, implicit, Ident(10 * k + 1, name),
        << IF nested
           THEN App(10 * k + 2, 0, Ident(10 * k + 3, MacroA),
                    <<Literal(10 * k + 4)>>)
           ELSE Literal(10 * k + 2) >>)

ItemSeqs ==
    UNION { { [k \in 1..n |-> Item(k, c[k][1], c[k][2], c[k][3])] :
              c \in [1..n -> CallNames \X (0..1) \X BOOLEAN] } :
            n \in 1..MaxItems }

\* An attribute of a type binding; gen is what derive::generate returns for it.
Attr(name, arg, gen) == [name |-> name, arg |-> arg, gen |-> gen]

\* A type binding: the span of its name and its attributes.
Bind(span, attrs) == [span |-> span, attrs |-> attrs]

BindGroups ==
    { <<Bind(101, <<Attr("derive", "Show", "ok")>>)>>,
      <<Bind(101, <<Attr("derive", "Show", "err")>>),
        Bind(102, <<Attr("derive", "Eq", "ok")>>)>>,
      <<Bind(101, <<Attr("doc", "text", "ok"), Attr("derive", "Show", "ok"),
                    Attr("derive", "Eq", "ok")>>)>>,
      <<Bind(101, <<Attr("doc", "text", "ok")>>),
        Bind(102, <<Attr("derive", "Eq", "err")>>)>> }

Programs ==
    { Block(2, s) : s \in ItemSeqs }
    \cup { TypeBindings(1, g, Block(2, s)) : g \in BindGroups, s \in ItemSeqs }

(***************************************************************************)
(* State.                                                                  *)
(***************************************************************************)
VARIABLES
    macros,     \* MacroEnv.macros: name -> implementation
    expr,       \* the expression MacroEnv::run works on
    errors,     \* MacroExpander.errors
    exprs,      \* MacroVisitor.exprs: the worklist of (site, future)
    queued,     \* futures_ordered: the outputs completed and not yet yielded
    next_idx,   \* futures_ordered: the index of the next output to yield
    pc,         \* where MacroEnv::run is
    result,     \* what MacroEnv::run returned
    expr0,      \* history: the expression before the run
    visited,    \* history: the expression when the traversal returned
    outcome,    \* history: the outcome of each site's future
    applied,    \* history: the sites in the order their nodes were replaced
    consumed,   \* history: the sites in the order for_each took their output
    recorded,   \* history: the number of errors.push calls
    gen_calls,  \* history: the (binding, attribute) pairs derive::generate was called for
    db,         \* CompilerDatabase.runtime and its query storage
    state,      \* CompilerDatabase.state: the State behind the mutex
    sources,    \* the files the module loader reads
    last,       \* history: the last request, its result and the calls it made
    since,      \* history: per module, compiled_module as it was last asked in this revision
    bumped_at,  \* history: per module, the revision its last change made
    steps,      \* the number of operations of the embedder so far
    lookup,     \* the name given to get_binding, and what get_global made of it
    binding,    \* what get_binding returned
    rwlock,     \* the RwLock of MacroEnv.macros: its writer and its readers
    heap,       \* the Mutex<State> cells that Arc pointers point to
    dbs,        \* the CompilerDatabase values: the original and its snapshots
    threads,    \* per thread, where it is in a method of a database
    done        \* history: the calls made and the mutations they made

mvars == <<macros, expr, errors, exprs, queued, next_idx, pc, result,
           expr0, visited, outcome, applied, consumed, recorded, gen_calls>>

\* The variables of a run of MacroEnv::run, without the registry.
evars == <<expr, errors, exprs, queued, next_idx, pc, result,
           expr0, visited, outcome, applied, consumed, recorded, gen_calls>>

qvars == <<db, state, sources, last, since, bumped_at, steps>>

svars == <<heap, dbs, threads, done>>

ovars == <<lookup, binding, rwlock, svars>>

vars == <<mvars, qvars, ovars>>

(***************************************************************************)
(* Macro implementations.                                                  *)
(***************************************************************************)
\* The expression a macro's future resolves to: built from the cloned
\* arguments, with a span of the macro's own choosing.
MacroValue(impl, args) ==
    Node(IF args = <<>> THEN DefaultSpan ELSE args[1].span,
         "Block", <<impl>>, 0, <<>>, args)

\* The error a macro's future fails with.
MacroFailure(impl, args) == [msg |-> "expansion failed", by |-> impl]

\* m.expand(self.expander, args.clone()): the future of one site.
expand(impl, args) == [args |-> args, impl |-> impl]

\* MacroEnv::get
get(reg, name) ==
    IF name \in DOMAIN reg THEN <<reg[name]>> ELSE <<>>

(***************************************************************************)
(* The traversal: MacroVisitor.                                            *)
(*   st = [expr, errors, exprs, recorded, gen_calls, macros]               *)
(***************************************************************************)
\* A push that puts the error at the front of the list.
push_error_front(st, err) ==
    [st EXCEPT !.errors = <<err>> \o @, !.recorded = @ + 1]

\* self.expander.errors.push(err)
push_error(st, err) ==
    [st EXCEPT !.errors = Append(@, err), !.recorded = @ + 1]

\* bind.metadata.attributes.iter().find(|attr| attr.name == "derive"):
\* the index of the first derive attribute, 0 when there is none.
find_derive(attrs) ==
    IF \E i \in 1..Len(attrs) : attrs[i].name = "derive"
    THEN CHOOSE i \in 1..Len(attrs) :
            /\ attrs[i].name = "derive"
            /\ \A j \in 1..(i - 1) : attrs[j].name # "derive"
    ELSE 0

\* crate::derive::generate(symbols, derive, bind)
generate(attr, bind) ==
    IF attr.gen = "ok"
    THEN [bindings |-> <<[derived |-> attr.arg, for |-> bind.span]>>,
          err |-> <<>>,
          ok |-> TRUE]
    ELSE [bindings |-> <<>>, err |-> <<[msg |-> "derive failed", by |-> attr.arg]>>,
          ok |-> FALSE]

RECURSIVE generated_bindings(_, _)
\* binds.iter().flat_map(..).collect(), from the k-th binding on: the
\* generated bindings, the errors pushed and the generator calls made.
generated_bindings(binds, k) ==
    IF k > Len(binds) THEN [bindings |-> <<>>, errs |-> <<>>, calls |-> {}]
    ELSE LET bind == binds[k]
             d == find_derive(bind.attrs)
             rest == generated_bindings(binds, k + 1)
         IN  IF d = 0 THEN rest
             ELSE LET g == generate(bind.attrs[d], bind)
                  IN  [bindings |-> g.bindings \o rest.bindings,
                       errs |-> (IF g.ok THEN <<>>
                                 ELSE <<Spanned(bind.span, g.err[1])>>)
                                \o rest.errs,
                       calls |-> {<<bind.span, d>>} \cup rest.calls]

RECURSIVE push_all(_, _)
push_all(st, errs) ==
    IF errs = <<>> THEN st ELSE push_all(push_error(st, Head(errs)), Tail(errs))

\* A TypeBindings arm that gives up the group when a generation failed: the
\* errors are recorded and nothing is injected.
visit_type_bindings_aborting(st, path) ==
    LET e == GetAt(st.expr, path)
        g == generated_bindings(e.binds, 1)
        st1 == [push_all(st, g.errs) EXCEPT !.gen_calls = @ \cup g.calls]
    IN  IF g.bindings # <<>> /\ g.errs = <<>>
        THEN [st1 EXCEPT !.expr =
                 PutAt(@, Append(path, 1),
                       LetBindings(DefaultSpan, g.bindings, e.kids[1]))]
        ELSE st1

\* The Expr::TypeBindings arm of visit_expr.
visit_type_bindings(st, path) ==
    LET e == GetAt(st.expr, path)
        g == generated_bindings(e.binds, 1)
        st1 == [push_all(st, g.errs) EXCEPT !.gen_calls = @ \cup g.calls]
    IN  IF g.bindings # <<>>
        THEN [st1 EXCEPT !.expr =
                 PutAt(@, Append(path, 1),
                       LetBindings(DefaultSpan, g.bindings, e.kids[1]))]
        ELSE st1

\* Expr::App whose func is Expr::Ident(id) with id.name ending in '!'.
is_macro_call(e) ==
    /\ e.kind = "App"
    /\ e.kids[1].kind = "Ident"
    /\ ends_with_bang(e.kids[1].name)

\* visit_macro_call with the lookup in an else branch: a site with implicit
\* arguments is reported and not dispatched.
visit_macro_call_else(st, path) ==
    LET e == GetAt(st.expr, path)
        m == get(st.macros, strip_bang(e.kids[1].name))
    IN  IF e.implicit # 0
        THEN [replacement |-> <<>>,
              st |-> push_error(st, Spanned(e.span,
                        [msg |-> "Implicit arguments are not allowed on macros",
                         by |-> "visitor"]))]
        ELSE [replacement |-> IF m # <<>>
                              THEN <<expand(m[1], Tail(e.kids))>>
                              ELSE <<>>,
              st |-> st]

\* The macro-call arm of visit_expr: the state after it and the future it
\* made (a sequence of at most one).
visit_macro_call(st, path) ==
    LET e == GetAt(st.expr, path)
        st1 == IF e.implicit # 0
               THEN push_error(st, Spanned(e.span,
                        [msg |-> "Implicit arguments are not allowed on macros",
                         by |-> "visitor"]))
               ELSE st
        m == get(st.macros, strip_bang(e.kids[1].name))
    IN  [replacement |-> IF m # <<>>
                         THEN <<expand(m[1], Tail(e.kids))>>
                         ELSE <<>>,
         st |-> st1]

RECURSIVE visit_expr(_, _)
RECURSIVE walk_from(_, _, _)
\* ast::walk_mut_expr: visit the children of the node in order.
walk_from(st, path, k) ==
    IF k > Len(GetAt(st.expr, path).kids) THEN st
    ELSE walk_from(visit_expr(st, Append(path, k)), path, k + 1)

walk_mut_expr(st, path) == walk_from(st, path, 1)

\* A visit_expr that walks into the node it has dispatched, too.
visit_expr_walking_dispatched(st, path) ==
    LET e == GetAt(st.expr, path)
        r == IF is_macro_call(e) THEN visit_macro_call(st, path)
             ELSE IF e.kind = "TypeBindings"
             THEN [replacement |-> <<>>, st |-> visit_type_bindings(st, path)]
             ELSE [replacement |-> <<>>, st |-> st]
    IN  IF r.replacement # <<>>
        THEN walk_mut_expr(
                [r.st EXCEPT !.exprs =
                    Append(@, [path |-> path, future |-> r.replacement[1]])],
                path)
        ELSE walk_mut_expr(r.st, path)

\* MacroVisitor::visit_expr
visit_expr(st, path) ==
    LET e == GetAt(st.expr, path)
        r == IF is_macro_call(e) THEN visit_macro_call(st, path)
             ELSE IF e.kind = "TypeBindings"
             THEN [replacement |-> <<>>, st |-> visit_type_bindings(st, path)]
             ELSE [replacement |-> <<>>, st |-> st]
    IN  IF r.replacement # <<>>
        THEN [r.st EXCEPT !.exprs =
                 Append(@, [path |-> path, future |-> r.replacement[1]])]
        ELSE walk_mut_expr(r.st, path)

(***************************************************************************)
(* The substitution: MacroExpander::run after the traversal.               *)
(***************************************************************************)
\* replace_expr keeping what mem::replace left in *expr as the original.
replace_expr_loses_original(e, new) ==
    LET expr_span == e.span
        hole == ErrorExpr(expr_span)
    IN  MacroExpansion(hole.span, hole, new)

\* replace_expr(expr, new): the node that ends up in *expr.
replace_expr(e, new) ==
    LET expr_span == e.span
        original == e
        hole == ErrorExpr(expr_span)
    IN  MacroExpansion(hole.span, original, new)

\* then_closure whose Err arm yields no error.
then_closure_drops_error(e, res) ==
    IF res.ok
    THEN [expr |-> replace_expr(e, [res.value EXCEPT !.span = e.span]),
          item |-> <<>>]
    ELSE [expr |-> replace_expr(e, ErrorExpr(e.span)), item |-> <<>>]

\* The closure given to future.then for one site: the node it leaves at the
\* site and the item it yields (a sequence of at most one spanned error).
then_closure(e, res) ==
    IF res.ok
    THEN [expr |-> replace_expr(e, [res.value EXCEPT !.span = e.span]),
          item |-> <<>>]
    ELSE LET expr_span == e.span
             new == replace_expr(e, ErrorExpr(expr_span))
         IN  [expr |-> new, item |-> <<Spanned(new.span, res.err)>>]

\* What the future of a site resolves to.
FutureResult(future, ok) ==
    [err |-> MacroFailure(future.impl, future.args),
     value |-> MacroValue(future.impl, future.args),
     ok |-> ok]

RECURSIVE for_each(_)
\* for_each over an unordered stream: the outputs are taken as they complete.
for_each_as_completed(d) ==
    IF \E k \in 1..Len(d.queued) : d.queued[k].at = "queued"
    THEN LET k == CHOOSE k \in 1..Len(d.queued) : d.queued[k].at = "queued"
             item == d.queued[k].item
         IN  for_each(
                [errors |-> d.errors \o item,
                 queued |-> [d.queued EXCEPT ![k].at = "yielded"],
                 next_idx |-> d.next_idx + 1,
                 consumed |-> Append(d.consumed, k),
                 recorded |-> d.recorded + Len(item)])
    ELSE d

\* for_each over a stream that ends at the first failed expansion (the
\* closure returning Err(err) in place of Ok(Some(err))).
for_each_stops_on_error(d) ==
    IF d.next_idx <= Len(d.queued) /\ d.queued[d.next_idx].at = "queued"
    THEN LET item == d.queued[d.next_idx].item
             taken == [errors |-> d.errors \o item,
                       queued |-> [d.queued EXCEPT ![d.next_idx].at = "yielded"],
                       next_idx |-> d.next_idx + 1,
                       consumed |-> Append(d.consumed, d.next_idx),
                       recorded |-> d.recorded + Len(item)]
         IN  IF item # <<>>
             THEN [taken EXCEPT !.next_idx = Len(d.queued) + 1]
             ELSE for_each(taken)
    ELSE d

\* stream::futures_ordered(..).for_each(..): the outputs are taken in the
\* order of the worklist, each as soon as it and all before it are there.
\*   d = [errors, recorded, queued, next_idx, consumed]
for_each(d) ==
    IF d.next_idx <= Len(d.queued) /\ d.queued[d.next_idx].at = "queued"
    THEN LET item == d.queued[d.next_idx].item
         IN  for_each(
                [errors |-> d.errors \o item,
                 queued |-> [d.queued EXCEPT ![d.next_idx].at = "yielded"],
                 next_idx |-> d.next_idx + 1,
                 consumed |-> Append(d.consumed, d.next_idx),
                 recorded |-> d.recorded + Len(item)])
    ELSE d

\* self.errors.has_errors()
has_errors(errs) == Len(errs) > 0

\* finish that drops the accumulated errors.
finish_always_ok(errs) == [errors |-> <<>>, tag |-> "Ok"]

\* MacroExpander::finish
finish(errs) ==
    IF has_errors(errs) THEN [errors |-> errs, tag |-> "Err"]
    ELSE [errors |-> <<>>, tag |-> "Ok"]

(***************************************************************************)
(* The compilation query engine (src/query.rs).                            *)
(*                                                                         *)
(* The queries of the Compilation query group are memoized by salsa.  A    *)
(* memo holds the value (which a sweep may discard), the revision it was   *)
(* last verified at, the revision its value last changed at and the keys   *)
(* read when it was computed.  `w` below is the world a query runs in:     *)
(*   w.db      the salsa runtime and storage of the CompilerDatabase       *)
(*   w.state   the State behind the database's mutex                       *)
(*   w.sources the files the module loader reads                           *)
(*   w.calls   history: the calls made to the loader, the type checker,    *)
(*             the compiler and collect_garbage                            *)
(***************************************************************************)
\* The number of operations of the embedder: requests and changes of a source.
MaxSteps == 4

ModA == <<"a">>

ModB == <<"s", ".", "b">>

\* The modules the embedder asks for.
Modules == {ModA, ModB}

\* A module that is changed and never asked for.
ModC == <<"c">>

AllModules == Modules \cup {ModC}

\* The names import is asked for: a module name, with or without the '@'.
ImportNames == Modules \cup { <<"@">> \o m : m \in Modules }

\* let mut filename = module.replace(".", "/"); filename.push_str(".glu");
filename(module) ==
    [i \in 1..Len(module) |-> IF module[i] = "." THEN "/" ELSE module[i]]
        \o <<".", "g", "l", "u">>

\* modulename.starts_with('@')
starts_with_at(name) == Len(name) > 0 /\ name[1] = "@"

\* An import that takes the name as it is given.
import_symbol_verbatim(modulename) == modulename

\* if modulename.starts_with('@') { modulename.clone() } else { format!("@{}", modulename) }
import_symbol(modulename) ==
    IF starts_with_at(modulename) THEN modulename ELSE <<"@">> \o modulename

\* The module a symbol '@'module names.
symbol_module(name) == IF starts_with_at(name) THEN Tail(name) ELSE name

\* A source text: its version and the modules it imports (import! m).
Text(ver, imports) == [ver |-> ver, imports |-> imports]

NoText == Text(0, {})

\* The value of a query: Result<_, Error> and the rest, in one shape.
Value(ok, n, text, err, name, uses) ==
    [name |-> name, err |-> err, n |-> n, ok |-> ok, text |-> text, uses |-> uses]

NoValue == Value(FALSE, 0, NoText, "none", <<>>, {})

(***************************************************************************)
(* The database when it is constructed: CompilerDatabase::new_base.        *)
(***************************************************************************)
EmptyMap == [m \in {} |-> 0]

NoCalls == [imports |-> {}, loads |-> [m \in Modules |-> 0],
            checks |-> [m \in Modules |-> 0], compiles |-> [m \in Modules |-> 0], gcs |-> 0,
            cycles |-> {}]

NoSince == [value |-> NoValue, has |-> FALSE, gc |-> FALSE]

NoRequest ==
    [value |-> NoValue, calls |-> NoCalls, m |-> <<>>, gc |-> FALSE,
     q |-> "none", source |-> NoText, had_value |-> FALSE,
     cached |-> NoValue, bumps |-> {},
     reach |-> {}, again |-> FALSE, prev |-> NoValue]

QueryIdle ==
    /\ db = EmptyMap
    /\ state = EmptyMap
    /\ sources = EmptyMap
    /\ last = NoRequest
    /\ since = EmptyMap
    /\ bumped_at = EmptyMap
    /\ steps = 0

\* No name is being resolved.
OtherIdle ==
    /\ lookup = <<>>
    /\ binding = <<>>
    /\ rwlock = <<>>
    /\ heap = <<>>
    /\ dbs = <<>>
    /\ threads = <<>>
    /\ done = <<>>

(***************************************************************************)
(* MacroEnv::run as a state machine.                                       *)
(***************************************************************************)
MacroInit ==
    /\ QueryIdle
    /\ OtherIdle
    /\ macros = [n \in {<<"a">>} |-> "A"]
    /\ expr \in Programs
    /\ expr0 = expr
    /\ visited = expr
    /\ errors = <<>>
    /\ exprs = <<>>
    /\ queued = <<>>
    /\ next_idx = 1
    /\ pc = "start"
    /\ result = [errors |-> <<>>, tag |-> "none"]
    /\ outcome = <<>>
    /\ applied = <<>>
    /\ consumed = <<>>
    /\ recorded = 0
    /\ gen_calls = {}

\* MacroExpander::run, lines 275-283: the traversal, which initiates the
\* expansions; with no site the stream is empty and wait() returns at once.
Visit ==
    /\ pc = "start"
    /\ LET st == visit_expr([macros |-> macros, expr |-> expr, errors |-> errors,
                             exprs |-> <<>>, recorded |-> recorded,
                             gen_calls |-> gen_calls], <<>>)
       IN  /\ expr' = st.expr
           /\ visited' = st.expr
           /\ errors' = st.errors
           /\ exprs' = st.exprs
           /\ recorded' = st.recorded
           /\ gen_calls' = st.gen_calls
           /\ queued' = [i \in 1..Len(st.exprs) |-> [item |-> <<>>, at |-> "pending"]]
           /\ outcome' = [i \in 1..Len(st.exprs) |-> "pending"]
           /\ pc' = IF Len(st.exprs) = 0 THEN "ran" ELSE "wait"
    /\ UNCHANGED <<macros, next_idx, result, expr0, applied, consumed>>
    /\ UNCHANGED <<qvars, ovars>>

\* The node the closure of the k-th completed future writes to, were the
\* results matched to the sites by their completion position.
closure_site_by_completion(i) == exprs[Len(applied) + 1].path

\* The node the closure of future i owns: the `expr` of the worklist pair
\* (expr, future) the closure was made from.
closure_site(i) == exprs[i].path

\* The future of site i resolves and the stream polls it: its closure
\* replaces the node, and for_each takes every output that is now in order.
Complete(i, ok) ==
    /\ pc = "wait"
    /\ i \in 1..Len(exprs)
    /\ queued[i].at = "pending"
    /\ LET site == closure_site(i)
           r == then_closure(GetAt(expr, site), FutureResult(exprs[i].future, ok))
           d == for_each([errors |-> errors, queued |-> [queued EXCEPT ![i] =
                                         [item |-> r.item, at |-> "queued"]],
                          next_idx |-> next_idx,
                          consumed |-> consumed, recorded |-> recorded])
       IN  /\ expr' = PutAt(expr, site, r.expr)
           /\ errors' = d.errors
           /\ recorded' = d.recorded
           /\ queued' = d.queued
           /\ next_idx' = d.next_idx
           /\ consumed' = d.consumed
           /\ pc' = IF d.next_idx > Len(exprs) THEN "ran" ELSE "wait"
    /\ outcome' = [outcome EXCEPT ![i] = IF ok THEN "ok" ELSE "err"]
    /\ applied' = Append(applied, i)
    /\ UNCHANGED <<macros, exprs, result, expr0, visited, gen_calls>>
    /\ UNCHANGED <<qvars, ovars>>

\* MacroEnv::run, line 241: expander.finish()
Finish ==
    /\ pc = "ran"
    /\ result' = finish(errors)
    /\ pc' = "done"
    /\ UNCHANGED <<macros, expr, errors, exprs, queued, next_idx, expr0,
                   visited, outcome, applied, consumed, recorded, gen_calls>>
    /\ UNCHANGED <<qvars, ovars>>

MacroNext ==
    \/ Visit
    \/ \E i \in 1..MaxItems, ok \in BOOLEAN : Complete(i, ok)
    \/ Finish

MacroSpec == MacroInit /\ [][MacroNext]_vars

Key(q, m) == [m |-> m, q |-> q]

InputKey == Key("module_states", <<>>)

SweptQueries == {"module_text", "typechecked_module", "compiled_module"}

GlobalsKey == Key("globals", <<>>)

DerivedKeys ==
    { Key(q, m) : q \in {"module_state", "global"} \cup SweptQueries,
                  m \in Modules }
    \cup { Key("import", n) : n \in ImportNames }
    \cup { GlobalsKey }

NotComputed ==
    [value |-> NoValue, state |-> "NotComputed", has_value |-> FALSE,
     verified_at |-> 0, changed_at |-> 0, deps |-> <<>>]

Max(a, b) == IF a >= b THEN a ELSE b

\* module_states().get(&module).cloned().unwrap_or_default()
get_or_default(states, module) ==
    IF module \in DOMAIN states THEN states[module] ELSE 0

SetMemo(w, key, memo) == [w EXCEPT !.db.memo[key] = memo]

\* State::add_filemap
add_filemap(st, file, source) ==
    [st EXCEPT
        !.files = [m \in DOMAIN @ \cup {file} |->
                      IF m = file THEN source ELSE @[m]]]

\* An entry that is overwritten with the default: insert(module, 0).
entry_insert_default(st, module) ==
    [st EXCEPT
        !.module_states = [m \in DOMAIN @ \cup {module} |->
                      IF m = module THEN 0 ELSE @[m]]]

\* state.module_states.entry(module).and_modify(|v| *v += 1).or_default()
entry_and_modify(st, module) ==
    [st EXCEPT
        !.module_states = [m \in DOMAIN @ \cup {module} |->
                      IF m = module
                      THEN (IF module \in DOMAIN @ THEN @[module] + 1 ELSE 0)
                      ELSE @[m]]]

\* CompilationBase::new_module, inside one lock of the State: add_filemap,
\* then the entry of the module in module_states.
new_module(st, module, contents) ==
    entry_and_modify(add_filemap(st, module, contents), module)

RECURSIVE sweep(_, _)
\* query(Q).sweep(discard_values().sweep_all_revisions()) over a set of keys:
\* the value of every memoized key is dropped, its dependency record kept; a
\* key that is being computed is left alone.
sweep(memo, keys) ==
    [k \in DOMAIN memo |->
        IF k \in keys /\ memo[k].state = "Memoized"
        THEN [memo[k] EXCEPT !.has_value = FALSE, !.value = NoValue]
        ELSE memo[k]]

\* CompilerDatabase::collect_garbage
collect_garbage(w) ==
    [w EXCEPT
        !.db.memo = sweep(sweep(sweep(@,
                        { Key("module_text", m) : m \in Modules }),
                        { Key("typechecked_module", m) : m \in Modules }),
                        { Key("compiled_module", m) : m \in Modules }),
        !.calls.gcs = @ + 1]

\* The modules of a set in the order the type checker meets their imports.
RECURSIVE InOrder(_)
InOrder(S) ==
    IF S = {} THEN <<>>
    ELSE LET m == CHOOSE x \in S : \A y \in S : Len(x) <= Len(y)
         IN  <<m>> \o InOrder(S \ {m})

RECURSIVE query(_, _)
RECURSIVE fetch(_, _)
RECURSIVE maybe_changed_since(_, _, _)
RECURSIVE deps_changed(_, _, _, _)
RECURSIVE execute(_, _)
RECURSIVE run_query(_, _)
RECURSIVE import_all(_, _, _)
RECURSIVE load_scripts(_, _, _, _)

\* After the check `c` of the k-th recorded dependency: a dependency that
\* may have changed ends the verification, otherwise the next is checked.
next_dep(c, deps, r, k) ==
    IF c.changed THEN c ELSE deps_changed(c.w, deps, r, k + 1)

\* The first of the recorded dependencies, from the k-th on, that may have
\* changed since revision r ends the verification of a memo.
deps_changed(w, deps, r, k) ==
    IF k > Len(deps) THEN [w |-> w, changed |-> FALSE]
    ELSE next_dep(maybe_changed_since(w, deps[k], r), deps, r, k)

\* Whether the value `e` just computed changed after revision r.
changed_since(e, r) == [w |-> e.w, changed |-> e.changed_at > r]

\* After the check `c` of the dependencies of the memo of `key`: unchanged
\* dependencies verify the memo; otherwise a memo that holds a value is
\* computed again and compared, and one that holds none counts as changed.
verified_or_changed(c, key, r, memo) ==
    IF ~c.changed
    THEN [w |-> SetMemo(c.w, key, [memo EXCEPT !.verified_at = c.w.db.rev]),
          changed |-> memo.changed_at > r]
    ELSE IF memo.has_value THEN changed_since(execute(c.w, key), r)
    ELSE [w |-> c.w, changed |-> TRUE]

\* salsa: has the value of `key` changed after revision r?
maybe_changed_since(w, key, r) ==
    IF key = InputKey
    THEN [w |-> w, changed |-> w.db.input_changed_at > r]
    ELSE LET memo == w.db.memo[key]
         IN  IF memo.state # "Memoized" THEN [w |-> w, changed |-> TRUE]
             ELSE IF memo.verified_at = w.db.rev
             THEN [w |-> w, changed |-> memo.changed_at > r]
             ELSE verified_or_changed(
                      deps_changed(w, memo.deps, memo.verified_at, 1),
                      key, r, memo)

\* What a request yields when a query function panicked.
Panic == Value(FALSE, 0, NoText, "panic", <<>>, {})

\* The error a query yields when it is entered while it is being computed.
CycleValue(key) == Value(FALSE, 0, NoText, "cycle", key.m, {})

\* After the check `c` of the dependencies of a memo that holds a value:
\* the value is returned when none changed and computed again otherwise.
validated(c, key, memo) ==
    IF ~c.changed
    THEN [value |-> memo.value,
          changed_at |-> memo.changed_at, w |-> SetMemo(c.w, key, [memo EXCEPT !.verified_at = c.w.db.rev])]
    ELSE execute(c.w, key)

\* fetch that never answers from a memo.
fetch_without_memo(w, key) ==
    IF w.db.memo[key].state = "InProgress"
    THEN [value |-> CycleValue(key),
          changed_at |-> w.db.rev, w |-> [w EXCEPT !.calls.cycles = @ \cup {key}]]
    ELSE execute(w, key)

\* salsa: the value of `key`, memoized: a memo verified in this revision is
\* returned; an older memo is returned when none of its dependencies
\* changed; everything else (also a memo whose value was swept) is computed.
fetch(w, key) ==
    LET memo == w.db.memo[key]
    IN  IF memo.state = "InProgress"
        THEN [value |-> CycleValue(key),
              changed_at |-> w.db.rev, w |-> [w EXCEPT !.calls.cycles = @ \cup {key}]]
        ELSE IF memo.state = "Memoized" /\ memo.has_value
                /\ memo.verified_at = w.db.rev
        THEN [value |-> memo.value, changed_at |-> memo.changed_at, w |-> w]
        ELSE IF memo.state = "Memoized" /\ memo.has_value
        THEN validated(deps_changed(w, memo.deps, memo.verified_at, 1), key, memo)
        ELSE execute(w, key)

\* db.<query>(key): the getter through which every query is asked.
query(w, key) == fetch(w, key)

\* The memo of what the query function returned (`r`).  The value changed at
\* the latest change of what was read, unless it equals the value the memo
\* held (`old`), whose stamp it then keeps.
\* A query function that panicked memoizes nothing: the memo is as it was
\* before the query was entered, and the panic goes on to the caller.
memoized(r, key, old, rev) ==
    LET changed_at == IF old.has_value /\ old.value = r.value
                         /\ old.changed_at <= r.changed_at
                      THEN old.changed_at ELSE r.changed_at
    IN  IF r.value = Panic
        THEN [value |-> Panic, changed_at |-> rev, w |-> SetMemo(r.w, key, old)]
        ELSE [value |-> r.value,
              changed_at |-> changed_at, w |-> SetMemo(r.w, key,
                  [value |-> r.value, state |-> "Memoized", has_value |-> TRUE,
                   verified_at |-> rev, changed_at |-> changed_at,
                   deps |-> r.deps])]

\* salsa: run the query function of `key` and memoize what it returns.
execute(w, key) ==
    memoized(run_query(SetMemo(w, key,
                           [w.db.memo[key] EXCEPT !.state = "InProgress"]), key),
             key, w.db.memo[key], w.db.rev)

\* fn module_state
module_state(w, module) ==
    [value |-> Value(TRUE, get_or_default(w.db.input, module), NoText, "", <<>>, {}),
     changed_at |-> w.db.input_changed_at,
     deps |-> <<InputKey>>,
     w |-> w]

\* crate::get_import(db.thread()).get_module_source(&module, &filename)
get_module_source(w, module, file) ==
    IF file \in DOMAIN w.sources THEN <<w.sources[file]>> ELSE <<>>

\* A module_text that registers the module when the loader failed, too.
load_text_registering_failure(w, module, deps, changed_at) ==
    LET contents == get_module_source(w, module, filename(module))
        w1 == [w EXCEPT !.calls.loads[module] = @ + 1]
    IN  IF contents = <<>>
        THEN [value |-> Value(FALSE, 0, NoText, "load", <<>>, {}),
              changed_at |-> changed_at,
              deps |-> deps, w |-> [w1 EXCEPT !.state = new_module(@, module, NoText)]]
        ELSE [value |-> Value(TRUE, 0, contents[1], "", <<>>, {}),
              changed_at |-> changed_at,
              deps |-> deps, w |-> [w1 EXCEPT !.state = new_module(@, module, contents[1])]]

\* fn module_text after db.module_state(module.clone()) returned `s`: the
\* source is read, and registered with new_module when there is one; `deps`
\* and `changed_at` are what the function read so far.
load_text(w, module, deps, changed_at) ==
    LET contents == get_module_source(w, module, filename(module))
        w1 == [w EXCEPT !.calls.loads[module] = @ + 1]
    IN  IF contents = <<>>
        THEN [value |-> Value(FALSE, 0, NoText, "load", <<>>, {}),
              changed_at |-> changed_at,
              deps |-> deps, w |-> w1]
        ELSE [value |-> Value(TRUE, 0, contents[1], "", <<>>, {}),
              changed_at |-> changed_at,
              deps |-> deps, w |-> [w1 EXCEPT !.state = new_module(@, module, contents[1])]]

\* The state `s` that module_text asked for, as what it read.
after_module_state(s, module) ==
    load_text(s.w, module, <<Key("module_state", module)>>, s.changed_at)

\* module_text that reads the module_states input itself instead of asking
\* for module_state(module).
module_text_reads_module_states(w, module) ==
    load_text(w, module, <<InputKey>>, w.db.input_changed_at)

\* module_text that does not ask for module_state.
module_text_without_module_state(w, module) ==
    load_text(w, module, <<>>, 0)

\* fn module_text
module_text(w, module) ==
    after_module_state(query(w, Key("module_state", module)), module)

\* The result `i` of the import of module m, joined with those of the
\* imports after it.
import_joined(i, m, rest) ==
    [err |-> IF i.value.ok THEN rest.err ELSE i.value.err,
     ok |-> i.value.ok /\ rest.ok,
     uses |-> {[name |-> i.value.name, ok |-> i.value.ok, m |-> m]} \cup rest.uses,
     changed_at |-> Max(i.changed_at, rest.changed_at),
     deps |-> <<Key("import", m)>> \o rest.deps,
     w |-> rest.w]

\* After the k-th import returned `i`: the imports after it are asked.
import_rest(i, mods, k) ==
    import_joined(i, mods[k], import_all(i.w, mods, k + 1))

\* The import! macros of a text, expanded while it is type checked: import
\* is asked for each imported module, from the k-th on.
import_all(w, mods, k) ==
    IF k > Len(mods)
    THEN [err |-> "", ok |-> TRUE, uses |-> {}, changed_at |-> 0, deps |-> <<>>,
          w |-> w]
    ELSE import_rest(query(w, Key("import", mods[k])), mods, k)

\* What the type checker returns for a text whose imports returned `i`: the
\* error of the first import that failed, if one did.
typecheck_value(i, text) ==
    [value |-> Value(i.ok, 0, text, i.err, <<>>, i.uses),
     changed_at |-> i.changed_at,
     deps |-> i.deps,
     w |-> i.w]

\* text.typecheck_expected(..): the external type checker (with the macro
\* expansion it runs) on a text.
typecheck_expected(w, module, text) ==
    typecheck_value(import_all([w EXCEPT !.calls.checks[module] = @ + 1],
                               InOrder(text.imports), 1),
                    text)

\* fn typechecked_module after the type checker returned `c` for the text `t`.
typechecked(c, t, module) ==
    [value |-> c.value, changed_at |-> Max(t.changed_at, c.changed_at),
     deps |-> <<Key("module_text", module)>> \o c.deps,
     w |-> c.w]

\* fn typechecked_module after db.module_text(module.clone()) returned `t`:
\* `?` returns its error, otherwise the text is type checked.
typecheck_text(t, module) ==
    IF ~t.value.ok
    THEN [value |-> t.value, changed_at |-> t.changed_at,
          deps |-> <<Key("module_text", module)>>,
          w |-> t.w]
    ELSE typechecked(typecheck_expected(t.w, module, t.value.text), t, module)

\* fn typechecked_module (expected_type = None)
typechecked_module(w, module) ==
    typecheck_text(query(w, Key("module_text", module)), module)

\* value.compile(..): the external compiler on a type checked module.
compile(w, module, text, value) ==
    [value |-> Value(TRUE, 0, text, "", module, value.uses),
     w |-> [w EXCEPT !.calls.compiles[module] = @ + 1]]

\* fn compiled_module without `?` after db.typechecked_module(..): the
\* compiler runs on whatever the type checker returned.
compile_typechecked_without_try(v, t, module) ==
    LET c == compile(v.w, module, t.value.text, v.value)
    IN  [value |-> c.value, changed_at |-> Max(t.changed_at, v.changed_at),
         deps |-> <<Key("module_text", module), Key("typechecked_module", module)>>,
         w |-> c.w]

\* fn compiled_module after db.typechecked_module(module.clone(), None)
\* returned `v` for the text `t`: `?` returns its error, otherwise the
\* module is compiled.
compile_typechecked(v, t, module) ==
    LET deps == <<Key("module_text", module), Key("typechecked_module", module)>>
        changed_at == Max(t.changed_at, v.changed_at)
        c == compile(v.w, module, t.value.text, v.value)
    IN  IF ~v.value.ok
        THEN [value |-> v.value, changed_at |-> changed_at, deps |-> deps,
              w |-> v.w]
        ELSE [value |-> c.value, changed_at |-> changed_at, deps |-> deps,
              w |-> c.w]

\* fn compiled_module after db.module_text(module.clone()) returned `t`:
\* `?` returns its error, otherwise the type checked module is asked for.
compile_text(t, module) ==
    IF ~t.value.ok
    THEN [value |-> t.value, changed_at |-> t.changed_at,
          deps |-> <<Key("module_text", module)>>,
          w |-> t.w]
    ELSE compile_typechecked(query(t.w, Key("typechecked_module", module)),
                             t, module)

\* fn compiled_module
compiled_module(w, module) ==
    compile_text(query(w, Key("module_text", module)), module)

\* crate::get_import(thread).load_module(.., &name): the module the symbol
\* names is compiled.
load_module(w, name) == query(w, Key("compiled_module", symbol_module(name)))

\* fn import without `result?`: the identifier is returned whatever
\* load_module returned.
imported_ignoring_result(loaded, name) ==
    [value |-> Value(TRUE, 0, NoText, "", name, {}),
     changed_at |-> loaded.changed_at,
     deps |-> <<Key("compiled_module", symbol_module(name))>>,
     w |-> collect_garbage(loaded.w)]

\* fn import with `result?` ahead of collect_garbage: a failed load returns
\* before the garbage is collected.
imported_without_garbage_of_failure(loaded, name) ==
    [value |-> IF loaded.value.ok
               THEN Value(TRUE, 0, NoText, "", name, {})
               ELSE [loaded.value EXCEPT !.name = <<>>],
     changed_at |-> loaded.changed_at,
     deps |-> <<Key("compiled_module", symbol_module(name))>>,
     w |-> IF loaded.value.ok THEN collect_garbage(loaded.w) ELSE loaded.w]

\* fn import after load_module returned `loaded`: the garbage is collected,
\* then `result?` returns the error or the identifier is returned.
imported(loaded, name) ==
    [value |-> IF loaded.value.ok
               THEN Value(TRUE, 0, NoText, "", name, {})
               ELSE [loaded.value EXCEPT !.name = <<>>],
     changed_at |-> loaded.changed_at,
     deps |-> <<Key("compiled_module", symbol_module(name))>>,
     w |-> collect_garbage(loaded.w)]

\* fn import
import(w, modulename) ==
    imported(load_module([w EXCEPT !.calls.imports = @ \cup {modulename}],
                         import_symbol(modulename)),
             import_symbol(modulename))

\* struct Global of the module `name`, made of what load_script returned
\* for its compiled value.
Global(name, value) == [value |-> value, id |-> name]

\* fn globals, the closure of `.map(..)` after db.compiled_module(name)
\* returned `c` for the k-th name: load_script returns the error of a module
\* that did not compile and `.expect(..)` panics; otherwise the Global is
\* collected and the next name is mapped.
load_script(c, names, k, acc) ==
    IF ~c.value.ok
    THEN [value |-> Panic, changed_at |-> Max(acc.changed_at, c.changed_at),
          deps |-> acc.deps \o <<Key("compiled_module", names[k])>>,
          w |-> c.w]
    ELSE load_scripts(c.w, names, k + 1,
             [changed_at |-> Max(acc.changed_at, c.changed_at),
              deps |-> acc.deps \o <<Key("compiled_module", names[k])>>,
              globals |-> acc.globals \cup {Global(names[k], c.value)}])

\* fn globals, the iteration over the names from the k-th on, with the
\* Globals collected so far in `acc`.
load_scripts(w, names, k, acc) ==
    IF k > Len(names)
    THEN [value |-> Value(TRUE, 0, NoText, "", <<>>, acc.globals), changed_at |-> acc.changed_at,
          deps |-> acc.deps, w |-> w]
    ELSE load_script(query(w, Key("compiled_module", names[k])), names, k, acc)

\* fn globals: the names are the keys of the module_states input.
globals(w) ==
    load_scripts(w, InOrder(DOMAIN w.db.input), 1,
                 [changed_at |-> w.db.input_changed_at, deps |-> <<InputKey>>,
                  globals |-> {}])

\* fn global after db.globals() returned `g`: `.get(&name).cloned()`.  The
\* query is volatile: its value counts as changed in every revision (each
\* new revision is a change of the module_states input).
global_get(g, name) ==
    [value |-> IF g.value = Panic THEN Panic
               ELSE IF \E x \in g.value.uses : x.id = name
               THEN (CHOOSE x \in g.value.uses : x.id = name).value
               ELSE NoValue,
     changed_at |-> g.w.db.rev,
     deps |-> <<InputKey, GlobalsKey>>,
     w |-> g.w]

\* fn global
global(w, name) == global_get(query(w, GlobalsKey), name)

\* The query function of a key.
run_query(w, key) ==
    CASE key.q = "module_state" -> module_state(w, key.m)
      [] key.q = "module_text" -> module_text(w, key.m)
      [] key.q = "typechecked_module" -> typechecked_module(w, key.m)
      [] key.q = "compiled_module" -> compiled_module(w, key.m)
      [] key.q = "import" -> import(w, key.m)
      [] key.q = "globals" -> globals(w)
      [] key.q = "global" -> global(w, key.m)

(***************************************************************************)
(* The query engine as a state machine: requests of the embedder and       *)
(* changes of the sources.                                                 *)
(***************************************************************************)
MacroIdle ==
    /\ macros = EmptyMap
    /\ expr = Literal(DefaultSpan)
    /\ expr0 = expr
    /\ visited = expr
    /\ errors = <<>>
    /\ exprs = <<>>
    /\ queued = <<>>
    /\ next_idx = 1
    /\ pc = "off"
    /\ result = [errors |-> <<>>, tag |-> "none"]
    /\ outcome = <<>>
    /\ applied = <<>>
    /\ consumed = <<>>
    /\ recorded = 0
    /\ gen_calls = {}

Files == { filename(m) : m \in AllModules }

\* The imports a text of module m may have.
ImportChoices(m) == IF m \in Modules THEN SUBSET (Modules \ {m}) ELSE {{}}

\* The text the loader has for module m, if it has one.
source_of(m) ==
    IF filename(m) \in DOMAIN sources THEN sources[filename(m)] ELSE NoText

RECURSIVE ReachIn(_, _)
\* The modules the texts of the modules of S import, and those they import.
ReachIn(S, n) ==
    IF n = 0 THEN S
    ELSE ReachIn(S \cup UNION { source_of(m).imports : m \in S }, n - 1)

\* The modules that module m depends on.
Reach(m) == ReachIn(source_of(m).imports, Cardinality(Modules))

\* CompilerDatabase::new_base, and the files as they are at first: no module
\* imports itself, directly or through the modules it imports.
QueryInit ==
    /\ MacroIdle
    /\ OtherIdle
    /\ db = [memo |-> [k \in DerivedKeys |-> NotComputed], rev |-> 1, input_changed_at |-> 1,
             input |-> EmptyMap]
    /\ state = [errors |-> <<>>, files |-> EmptyMap, module_states |-> EmptyMap]
    /\ \E c \in [AllModules -> SUBSET Modules] :
          /\ \A m \in AllModules : c[m] \in ImportChoices(m)
          /\ sources = [f \in Files |->
                LET m == CHOOSE m \in AllModules : filename(m) = f
                IN  Text(1, c[m])]
    /\ \A m \in Modules : m \notin Reach(m)
    /\ last = NoRequest
    /\ since = [m \in Modules |-> NoSince]
    /\ bumped_at = [m \in AllModules |-> 0]
    /\ steps = 0

\* The world a request runs in.
World == [db |-> db, state |-> state, sources |-> sources, calls |-> NoCalls]

\* The answer `r` to a request for `key`: the database and the State are
\* as the query left them, and the request is recorded.
Answer(key, r) ==
    LET memo == db.memo[key]
        module == symbol_module(key.m)
        was == IF key.q = "compiled_module" THEN since[module] ELSE NoSince
    IN  /\ db' = r.w.db
        /\ state' = r.w.state
        /\ last' = [value |-> r.value, calls |-> r.w.calls, m |-> key.m,
                    gc |-> was.gc,
                    q |-> key.q,
                    source |-> source_of(module),
                    had_value |-> memo.state = "Memoized" /\ memo.has_value,
                    cached |-> memo.value,
                    bumps |-> { a \in AllModules :
                                   bumped_at[a] > memo.verified_at },
                    reach |-> Reach(module), again |-> was.has, prev |-> was.value]
        /\ since' = [m \in Modules |->
              IF key = Key("compiled_module", m)
              THEN [value |-> r.value, has |-> TRUE, gc |-> FALSE]
              ELSE [since[m] EXCEPT
                      !.gc = @ \/ (since[m].has /\ r.w.calls.gcs > 0)]]

\* A request of the embedder for the value of a query.
Request(key) ==
    /\ steps < MaxSteps
    /\ steps' = steps + 1
    /\ Answer(key, query(World, key))
    /\ UNCHANGED <<sources, bumped_at>>
    /\ UNCHANGED <<mvars, ovars>>

RequestModuleText(m) == Request(Key("module_text", m))

RequestTypecheckedModule(m) == Request(Key("typechecked_module", m))

RequestCompiledModule(m) == Request(Key("compiled_module", m))

RequestImport(n) == Request(Key("import", n))

\* The source of module m changes and its revision is bumped: the embedder
\* sets the module_states input with the counter of m raised by one.  The
\* new text imports no module that depends on m.
ChangeSource(m, imports) ==
    /\ steps < MaxSteps
    /\ steps' = steps + 1
    /\ m \notin ReachIn(imports, Cardinality(Modules))
    /\ sources' = [sources EXCEPT ![filename(m)] = Text(@.ver + 1, imports)]
    /\ db' = [db EXCEPT
                !.rev = @ + 1,
                !.input_changed_at = db.rev + 1,
                !.input = [x \in DOMAIN @ \cup {m} |->
                              IF x = m THEN get_or_default(@, m) + 1 ELSE @[x]]]
    /\ since' = [x \in Modules |-> NoSince]
    /\ bumped_at' = [bumped_at EXCEPT ![m] = db.rev + 1]
    /\ UNCHANGED <<state, last>>
    /\ UNCHANGED <<mvars, ovars>>

QueryNext ==
    \/ \E m \in Modules : RequestModuleText(m)
    \/ \E m \in Modules : RequestTypecheckedModule(m)
    \/ \E m \in Modules : RequestCompiledModule(m)
    \/ \E n \in ImportNames : RequestImport(n)
    \/ \E m \in AllModules : \E imports \in ImportChoices(m) : ChangeSource(m, imports)

QuerySpec == QueryInit /\ [][QueryNext]_vars

(***************************************************************************)
(* The query engine on modules that import each other.                     *)
(***************************************************************************)
\* The database as constructed, and files in which module a imports
\* module s.b and module s.b imports module a.
CycleInit ==
    /\ MacroIdle
    /\ OtherIdle
    /\ db = [memo |-> [k \in DerivedKeys |-> NotComputed], rev |-> 1, input_changed_at |-> 1,
             input |-> EmptyMap]
    /\ state = [errors |-> <<>>, files |-> EmptyMap, module_states |-> EmptyMap]
    /\ \E va, vb \in 1..2 :
          sources = [f \in Files |->
                IF f = filename(ModA) THEN Text(va, {ModB})
                ELSE IF f = filename(ModB) THEN Text(vb, {ModA})
                ELSE Text(1, {})]
    /\ last = NoRequest
    /\ since = [m \in Modules |-> NoSince]
    /\ bumped_at = [m \in AllModules |-> 0]
    /\ steps = 0

\* The modules are imported by the names the import! macro asks them by.
CycleNext ==
    \/ \E m \in Modules : RequestImport(m)
    \/ \E m \in Modules : RequestModuleText(m)

CycleSpec == CycleInit /\ [][CycleNext]_vars

(***************************************************************************)
(* Properties of the macro expansion engine.                               *)
(***************************************************************************)
Sites == 1..Len(exprs)

\* The node at site i now, and when the traversal dispatched it.
SiteNode(i) == GetAt(expr, exprs[i].path)

PreNode(i) == GetAt(visited, exprs[i].path)

\* The result of the macro of site i, carrying the span of the call.
Replacement(i) ==
    [MacroValue(exprs[i].future.impl, exprs[i].future.args)
        EXCEPT !.span = PreNode(i).span]

RECURSIVE Subtrees(_)
Subtrees(e) == {e} \cup UNION { Subtrees(e.kids[k]) : k \in DOMAIN e.kids }

\* What site k is to hold once its future has the outcome recorded for it.
Wanted(k) ==
    MacroExpansion(PreNode(k).span, PreNode(k),
                   IF outcome[k] = "ok" THEN Replacement(k)
                   ELSE ErrorExpr(PreNode(k).span))

RECURSIVE ExpectedFrom(_, _)
ExpectedFrom(e, k) ==
    IF k > Len(exprs) THEN e
    ELSE ExpectedFrom(IF outcome[k] = "pending" THEN e
                      ELSE PutAt(e, exprs[k].path, Wanted(k)), k + 1)

\* C1: whatever the order in which the futures complete, the expression is
\* the traversed expression with every completed site holding the outcome
\* of its own future: it is a function of the per-site outcomes alone.
C1_TreeIsFunctionOfOutcomes ==
    pc # "start" => expr = ExpectedFrom(visited, 1)

\* C1 witness: a finished run whose second site completed before its first,
\* one succeeding and one failing.
C1_Witness ==
    /\ pc = "done"
    /\ Len(applied) >= 2
    /\ applied[1] > applied[2]
    /\ outcome[applied[1]] # outcome[applied[2]]

\* C2 as stated: the nodes are replaced in worklist order, site i before
\* site j whenever i < j.
C2_ReplacedInSubmissionOrder ==
    \A a, b \in DOMAIN applied : a < b => applied[a] < applied[b]

IsExpansionFailure(e) == e.value.msg = "expansion failed"

RECURSIVE FailuresFrom(_, _)
\* The failures of the sites k..n-1 in worklist order.
FailuresFrom(k, n) ==
    IF k >= n THEN <<>>
    ELSE (IF outcome[k] = "err"
          THEN <<Spanned(PreNode(k).span,
                         MacroFailure(exprs[k].future.impl, exprs[k].future.args))>>
          ELSE <<>>) \o FailuresFrom(k + 1, n)

\* C2 as amended: the outputs of the expansions are taken by for_each in
\* worklist order, and so are the failures appended to the error list; the
\* node of a site is replaced when its own future completes.
C2_ConsumedInSubmissionOrder ==
    /\ consumed = [k \in 1..(next_idx - 1) |-> k]
    /\ \A k \in DOMAIN consumed : outcome[k] # "pending"
    /\ SelectSeq(errors, IsExpansionFailure) = FailuresFrom(1, next_idx)
    /\ \A k \in DOMAIN applied : outcome[applied[k]] # "pending"
    /\ \A i \in DOMAIN outcome :
          outcome[i] # "pending" <=> \E k \in DOMAIN applied : applied[k] = i

\* C2 witness: the second site failed first, the first site failed later, and
\* the two failures were taken in worklist order.
C2_Witness ==
    /\ Len(applied) >= 2
    /\ applied[1] = 2
    /\ applied[2] = 1
    /\ outcome[1] = "err"
    /\ outcome[2] = "err"
    /\ Len(consumed) >= 2

\* C3: when the run returns every site has been processed, and every site
\* whose expansion succeeded holds a MacroExpansion with its own
\* replacement, whichever other sites failed.
C3_FaultIsolation ==
    pc \in {"ran", "done"} =>
        \A i \in Sites :
            /\ outcome[i] # "pending"
            /\ queued[i].at = "yielded"
            /\ outcome[i] = "ok" =>
                  /\ SiteNode(i).kind = "MacroExpansion"
                  /\ SiteNode(i).kids[2] = Replacement(i)

\* C3 witness: a finished run in which an earlier site failed and a later
\* site succeeded.
C3_Witness ==
    /\ pc = "done"
    /\ \E i, j \in Sites : i < j /\ outcome[i] = "err" /\ outcome[j] = "ok"

\* C4: after a successful expansion the site is MacroExpansion{original,
\* replacement}: original is the call node as it was before the expansion
\* (a call node of the input), replacement is the macro's result, and the
\* wrapper and the replacement both carry the span of the call node.
C4_SuccessWrapsOriginal ==
    \A i \in Sites :
        outcome[i] = "ok" =>
            LET n == SiteNode(i)
                pre == PreNode(i)
                value == MacroValue(exprs[i].future.impl, Tail(pre.kids))
            IN  /\ n.kind = "MacroExpansion"
                /\ n.kids[1] = pre
                /\ pre \in Subtrees(expr0)
                /\ is_macro_call(pre)
                /\ n.kids[2] = [value EXCEPT !.span = pre.span]
                /\ n.span = pre.span
                /\ n.kids[2].span = pre.span

\* C4 witness: a site expanded successfully by a macro whose result came with
\* a span other than the call's.
C4_Witness ==
    \E i \in Sites :
        /\ outcome[i] = "ok"
        /\ MacroValue(exprs[i].future.impl, exprs[i].future.args).span
              # PreNode(i).span

\* The number of errors of the list that are the failure of site i.
FailureCount(i) ==
    Cardinality({ k \in DOMAIN errors :
        errors[k] = Spanned(PreNode(i).span,
                            MacroFailure(exprs[i].future.impl, exprs[i].future.args)) })

\* C5 as stated: a failed site holds a bare error placeholder, not a
\* MacroExpansion, and its one error is in the list once it was taken.
C5_FailureLeavesBareError ==
    \A i \in Sites :
        outcome[i] = "err" =>
            /\ SiteNode(i).kind = "Error"
            /\ queued[i].at = "yielded" => FailureCount(i) = 1

\* C5 as amended: a failed site holds a MacroExpansion whose original is the
\* call node and whose replacement is the error placeholder, both with the
\* span of the call; exactly one error with that span is appended for it.
C5_FailureWrapsErrorPlaceholder ==
    \A i \in Sites :
        outcome[i] = "err" =>
            LET n == SiteNode(i)
                pre == PreNode(i)
            IN  /\ n.kind = "MacroExpansion"
                /\ n.span = pre.span
                /\ n.kids[1] = pre
                /\ n.kids[2] = ErrorExpr(pre.span)
                /\ FailureCount(i) = IF queued[i].at = "yielded" THEN 1 ELSE 0

\* C5 witness: a failed site whose error has been appended.
C5_Witness ==
    \E i \in Sites : outcome[i] = "err" /\ queued[i].at = "yielded"

\* C6: MacroEnv::run returns Err exactly when an error was recorded during
\* the run, and then returns the whole list; otherwise it returns Ok.
C6_FinishReportsRecordedErrors ==
    pc = "done" =>
        /\ result.tag \in {"Ok", "Err"}
        /\ result.tag = "Err" <=> recorded > 0
        /\ result.tag = "Err" =>
              /\ result.errors = errors
              /\ Len(result.errors) = recorded

\* C6 witness: a run that returned Err with an implicit-argument error, a
\* derive failure and an expansion failure in its list.
C6_Witness ==
    /\ pc = "done"
    /\ result.tag = "Err"
    /\ \E a, b, c \in DOMAIN result.errors :
          /\ result.errors[a].value.msg = "Implicit arguments are not allowed on macros"
          /\ result.errors[b].value.msg = "derive failed"
          /\ result.errors[c].value.msg = "expansion failed"

\* The paths of the top-level items of the traversed expression.
ItemPaths ==
    IF visited.kind = "Block" THEN { <<k>> : k \in DOMAIN visited.kids }
    ELSE IF visited.kids[1].kind = "LetBindings"
    THEN { <<1, 1, k>> : k \in DOMAIN visited.kids[1].kids[1].kids }
    ELSE { <<1, k>> : k \in DOMAIN visited.kids[1].kids }

ImplicitError(e) ==
    Spanned(e.span, [msg |-> "Implicit arguments are not allowed on macros",
                     by |-> "visitor"])

\* C7 as stated: every dispatched site is a call of a name ending in '!'
\* that carries no implicit arguments.
C7_ImplicitSitesNotDispatched ==
    pc # "start" =>
        \A i \in Sites : is_macro_call(PreNode(i)) /\ PreNode(i).implicit = 0

\* C7 as amended: every dispatched site is a call of a name ending in '!'
\* whose stripped name is registered; a macro call with implicit arguments
\* gets exactly one error against its span and is dispatched all the same
\* when its macro is registered.
C7_DispatchOnlyAtMacroCalls ==
    pc # "start" =>
        /\ \A i \in Sites :
              LET pre == PreNode(i)
              IN  /\ is_macro_call(pre)
                  /\ strip_bang(pre.kids[1].name) \in DOMAIN macros
                  /\ exprs[i].future =
                        expand(macros[strip_bang(pre.kids[1].name)], Tail(pre.kids))
        /\ \A p \in ItemPaths :
              LET e == GetAt(visited, p)
                  n == Cardinality({ k \in DOMAIN errors : errors[k] = ImplicitError(e) })
              IN  /\ n = IF is_macro_call(e) /\ e.implicit # 0 THEN 1 ELSE 0
                  /\ (is_macro_call(e) /\ strip_bang(e.kids[1].name) \in DOMAIN macros)
                        <=> \E i \in Sites : exprs[i].path = p

\* C7 witness: a dispatched site that carries implicit arguments.
C7_Witness ==
    /\ pc # "start"
    /\ \E i \in Sites : PreNode(i).implicit # 0

(***************************************************************************)
(* Properties of the query engine.                                         *)
(***************************************************************************)
\* The module the last request was for.
LastModule == symbol_module(last.m)

\* The last request ran the function of the query it asked for.
Recomputed ==
    CASE last.q = "module_text" -> last.calls.loads[LastModule] >= 1
      [] last.q = "typechecked_module" -> last.calls.checks[LastModule] >= 1
      [] last.q = "compiled_module" ->
            last.value.ok => last.calls.compiles[LastModule] >= 1
      [] OTHER -> TRUE

\* C8 as stated: compiled_module(m) asked twice in one revision, whatever
\* ran in between, returns equal results, and the second request calls
\* neither the module loader nor the parser (the type checker's front end).
C8_SecondRequestNeverReloads ==
    (last.q = "compiled_module" /\ last.again)
        => /\ last.value = last.prev
           /\ last.calls.loads[LastModule] = 0
           /\ last.calls.checks[LastModule] = 0

\* C8: compiled_module(m) asked twice in one revision with no import
\* executed in between returns equal results, and the second request calls
\* neither the module loader nor the type checker nor the compiler.
C8_SecondRequestWithoutImportBetween ==
    (last.q = "compiled_module" /\ last.again /\ ~last.gc)
        => /\ last.value = last.prev
           /\ \A m \in Modules :
                 /\ last.calls.loads[m] = 0
                 /\ last.calls.checks[m] = 0
                 /\ last.calls.compiles[m] = 0

C8_Witness ==
    /\ last.q = "compiled_module"
    /\ last.again
    /\ ~last.gc
    /\ last.value.ok
    /\ last.value = last.prev
    /\ last.calls.loads[LastModule] = 0
    /\ steps >= 3

\* C9: a request of module_text(m), typechecked_module(m) or
\* compiled_module(m) whose memo was last verified before the latest bump of
\* m runs the query again on the text the source has now, and its result is
\* not the cached one.
C9_BumpedModuleIsRecomputed ==
    (last.q \in SweptQueries /\ LastModule \in last.bumps)
        => /\ Recomputed
           /\ last.value.text = last.source
           /\ last.had_value => last.value # last.cached

C9_Witness ==
    /\ last.q \in SweptQueries
    /\ LastModule \in last.bumps
    /\ last.had_value
    /\ last.cached.ok
    /\ last.value.ok
    /\ last.value.text = last.source
    /\ last.value.text # last.cached.text

\* C10: a request for module B whose memo holds a value and was last
\* verified before some bump, where every module bumped since is neither B
\* nor a module B depends on, returns the cached value and calls neither the
\* loader nor the type checker nor the compiler for B.
C10_UnrelatedBumpKeepsCache ==
    (/\ last.q \in SweptQueries
     /\ last.had_value
     /\ last.bumps # {}
     /\ \A a \in last.bumps : a # LastModule /\ a \notin last.reach)
        => /\ last.value = last.cached
           /\ last.calls.loads[LastModule] = 0
           /\ last.calls.checks[LastModule] = 0
           /\ last.calls.compiles[LastModule] = 0

C10_Witness ==
    /\ last.q \in SweptQueries
    /\ last.had_value
    /\ last.bumps # {}
    /\ \A a \in last.bumps : a # LastModule /\ a \notin last.reach
    /\ last.value.ok
    /\ last.value = last.cached
    /\ last.calls.loads[LastModule] = 0

(***************************************************************************)
(* The query engine with a loader that has no source for some modules, and *)
(* with modules registered in the module_states input.                     *)
(***************************************************************************)
\* The number of operations of the embedder: requests and registrations.
MaxRequests == 3

\* CompilerDatabase::new_base, and the files the loader finds: some modules
\* have none, and no module imports itself.
LoadInit ==
    /\ MacroIdle
    /\ OtherIdle
    /\ db = [memo |-> [k \in DerivedKeys |-> NotComputed], rev |-> 1, input_changed_at |-> 1,
             input |-> EmptyMap]
    /\ state = [errors |-> <<>>, files |-> EmptyMap, module_states |-> EmptyMap]
    /\ \E P \in SUBSET Modules : \E c \in [Modules -> SUBSET Modules] :
          /\ \A m \in Modules : c[m] \in ImportChoices(m)
          /\ sources = [f \in { filename(m) : m \in P } |->
                LET m == CHOOSE m \in Modules : filename(m) = f
                IN  Text(1, c[m])]
    /\ \A m \in Modules : m \notin Reach(m)
    /\ last = NoRequest
    /\ since = [m \in Modules |-> NoSince]
    /\ bumped_at = [m \in AllModules |-> 0]
    /\ steps = 0

RequestGlobals == Request(GlobalsKey)

RequestGlobal(m) == Request(Key("global", m))

\* The embedder registers module m in the module_states input, or bumps
\* its counter there: a new revision.
SetModuleStates(m) ==
    /\ steps < MaxSteps
    /\ steps' = steps + 1
    /\ db' = [db EXCEPT
                !.rev = @ + 1,
                !.input_changed_at = db.rev + 1,
                !.input = [x \in DOMAIN @ \cup {m} |->
                              IF x = m THEN get_or_default(@, m) + 1 ELSE @[x]]]
    /\ since' = [x \in Modules |-> NoSince]
    /\ bumped_at' = [bumped_at EXCEPT ![m] = db.rev + 1]
    /\ UNCHANGED <<state, last, sources>>
    /\ UNCHANGED <<mvars, ovars>>

LoadNext ==
    /\ steps < MaxRequests
    /\ \/ \E m \in Modules : RequestModuleText(m)
       \/ \E m \in Modules : RequestTypecheckedModule(m)
       \/ \E m \in Modules : RequestCompiledModule(m)
       \/ \E n \in ImportNames : RequestImport(n)
       \/ RequestGlobals
       \/ \E m \in Modules : RequestGlobal(m)
       \/ \E m \in Modules : SetModuleStates(m)

LoadSpec == LoadInit /\ [][LoadNext]_vars

(***************************************************************************)
(* A loader that loses sources: modules that were loaded before are asked  *)
(* for again when their source is gone.                                    *)
(***************************************************************************)
\* The loader cannot produce the source of module m any more.
RemoveSource(m) ==
    /\ steps < MaxSteps
    /\ filename(m) \in DOMAIN sources
    /\ steps' = steps + 1
    /\ sources' = [f \in DOMAIN sources \ {filename(m)} |-> sources[f]]
    /\ UNCHANGED <<db, state, last, since, bumped_at>>
    /\ UNCHANGED <<mvars, ovars>>

UnloadNext ==
    \/ \E m \in Modules : RequestModuleText(m)
    \/ \E m \in Modules : RequestCompiledModule(m)
    \/ \E n \in Modules : RequestImport(n)
    \/ \E m \in Modules : SetModuleStates(m)
    \/ \E m \in Modules : RemoveSource(m)

UnloadSpec == LoadInit /\ [][UnloadNext]_vars

(***************************************************************************)
(* Snapshots of the database and the State they share: threads call        *)
(* new_module, report_errors and the readers of the State through the      *)
(* original database and through its snapshots.                            *)
(***************************************************************************)
\* The number of threads.
MaxThreads == 2

\* The number of snapshots taken.
MaxSnapshots == 1

\* The number of calls the threads make.
MaxCalls == 3

\* A snapshot that clones the State instead of the Arc: it points to a new
\* cell that holds a copy.
snapshot_cloning_state(d, cells, h) ==
    [heap |-> Append(cells, [cells[d[h].state] EXCEPT !.held = 0]),
     dbs |-> Append(d, [state |-> Len(cells) + 1])]

\* ParallelDatabase::snapshot of the h-th database: `state: self.state.clone()`
\* clones the Arc, so the snapshot points to the cell the database points to.
snapshot(d, cells, h) ==
    [heap |-> cells, dbs |-> Append(d, [state |-> d[h].state])]

\* CompilerDatabase::new_base: one database, whose State is Default.
SnapshotInit ==
    /\ MacroIdle
    /\ QueryIdle
    /\ lookup = <<>>
    /\ binding = <<>>
    /\ rwlock = <<>>
    /\ heap = <<[state |-> [errors |-> <<>>, files |-> EmptyMap,
                            module_states |-> EmptyMap],
                 held |-> 0]>>
    /\ dbs = <<[state |-> 1]>>
    /\ threads = [t \in 1..MaxThreads |->
                    [pc |-> "idle", contents |-> 0, cell |-> 0, seen |-> <<>>]]
    /\ done = [calls |-> 0, registered |-> 0, reported |-> 0, through |-> {}]

Snapshot(h) ==
    /\ Len(dbs) <= MaxSnapshots
    /\ dbs' = snapshot(dbs, heap, h).dbs
    /\ heap' = snapshot(dbs, heap, h).heap
    /\ UNCHANGED <<threads, done>>
    /\ UNCHANGED <<mvars, qvars, lookup, binding, rwlock>>

\* CompilerDatabase::state: self.state.lock() returns when no thread holds
\* the mutex of the cell.
lock(cells, a) == cells[a].held = 0

\* Thread t calls new_module on the h-th database: `let mut state =
\* self.state()` takes the mutex.
NewModule(t, h) ==
    /\ threads[t].pc = "idle"
    /\ done.calls < MaxCalls
    /\ lock(heap, dbs[h].state)
    /\ heap' = [heap EXCEPT ![dbs[h].state].held = t]
    /\ threads' = [threads EXCEPT ![t].pc = "add_filemap",
                                  ![t].cell = dbs[h].state,
                                  ![t].contents = done.registered + 1]
    /\ done' = [done EXCEPT !.calls = @ + 1, !.through = @ \cup {h}]
    /\ UNCHANGED dbs
    /\ UNCHANGED <<mvars, qvars, lookup, binding, rwlock>>

\* new_module that takes the mutex for add_filemap only: the entry in
\* module_states is made after the mutex is released.
AddFilemapAndUnlock(t) ==
    /\ threads[t].pc = "add_filemap"
    /\ heap' = [heap EXCEPT
                  ![threads[t].cell].state =
                      add_filemap(@, ModA, threads[t].contents),
                  ![threads[t].cell].held = 0]
    /\ threads' = [threads EXCEPT ![t].pc = "entry"]
    /\ done' = [done EXCEPT !.registered = @ + 1]
    /\ UNCHANGED dbs
    /\ UNCHANGED <<mvars, qvars, lookup, binding, rwlock>>

\* new_module: state.add_filemap(&module, &contents[..])
AddFilemap(t) ==
    /\ threads[t].pc = "add_filemap"
    /\ heap' = [heap EXCEPT
                  ![threads[t].cell].state =
                      add_filemap(@, ModA, threads[t].contents)]
    /\ threads' = [threads EXCEPT ![t].pc = "entry"]
    /\ done' = [done EXCEPT !.registered = @ + 1]
    /\ UNCHANGED dbs
    /\ UNCHANGED <<mvars, qvars, lookup, binding, rwlock>>

\* new_module: the entry of the module in module_states, and the return,
\* which drops the guard.
EntryAndModify(t) ==
    /\ threads[t].pc = "entry"
    /\ heap' = [heap EXCEPT
                  ![threads[t].cell].state = entry_and_modify(@, ModA),
                  ![threads[t].cell].held = 0]
    /\ threads' = [threads EXCEPT ![t].pc = "idle"]
    /\ UNCHANGED <<dbs, done>>
    /\ UNCHANGED <<mvars, qvars, lookup, binding, rwlock>>

\* Thread t calls report_errors on the h-th database:
\* self.state().errors.extend(error), the guard dropped with the statement.
ReportErrors(t, h) ==
    /\ threads[t].pc = "idle"
    /\ done.calls < MaxCalls
    /\ lock(heap, dbs[h].state)
    /\ heap' = [heap EXCEPT ![dbs[h].state].state.errors = Append(@, "error")]
    /\ done' = [done EXCEPT !.calls = @ + 1, !.reported = @ + 1,
                            !.through = @ \cup {h}]
    /\ UNCHANGED <<dbs, threads>>
    /\ UNCHANGED <<mvars, qvars, lookup, binding, rwlock>>

\* Thread t reads the State of the h-th database under its mutex.
ReadState(t, h) ==
    /\ threads[t].pc = "idle"
    /\ done.calls < MaxCalls
    /\ lock(heap, dbs[h].state)
    /\ threads' = [threads EXCEPT
                     ![t].seen = <<[db |-> h,
                                    state |-> heap[dbs[h].state].state, done |-> done]>>]
    /\ done' = [done EXCEPT !.calls = @ + 1]
    /\ UNCHANGED <<dbs, heap>>
    /\ UNCHANGED <<mvars, qvars, lookup, binding, rwlock>>

SnapshotNext ==
    \/ \E h \in 1..Len(dbs) : Snapshot(h)
    \/ \E t \in 1..MaxThreads : \E h \in 1..Len(dbs) : NewModule(t, h)
    \/ \E t \in 1..MaxThreads : AddFilemap(t)
    \/ \E t \in 1..MaxThreads : EntryAndModify(t)
    \/ \E t \in 1..MaxThreads : \E h \in 1..Len(dbs) : ReportErrors(t, h)
    \/ \E t \in 1..MaxThreads : \E h \in 1..Len(dbs) : ReadState(t, h)

SnapshotSpec == SnapshotInit /\ [][SnapshotNext]_vars

(***************************************************************************)
(* The macro registry, MacroEnv, used by several threads: insert under the *)
(* write lock of `macros`, get under its read lock.  An entry of the map   *)
(* is an Arc<Macro>, a pointer of two words (the data and the vtable of    *)
(* the implementation), which FnvMap::insert writes one after the other.   *)
(***************************************************************************)
RegistryNames == {<<"a">>, <<"b">>}

MacroImpls == {"A", "B"}

\* Arc::new(mac) as Arc<Macro>
ArcNew(mac) == [data |-> mac, vtable |-> mac]

\* FnvMap::insert, the first word: the data pointer of the entry of the
\* name, whose vtable is still the one of the entry it replaces ("none" for
\* a new entry).
insert_data(reg, name, mac) ==
    [n \in DOMAIN reg \cup {name} |->
        IF n = name
        THEN [data |-> mac,
              vtable |-> IF name \in DOMAIN reg THEN reg[name].vtable
                         ELSE "none"]
        ELSE reg[n]]

\* FnvMap::insert, the second word.
insert_vtable(reg, name, mac) == [reg EXCEPT ![name].vtable = mac]

\* RwLock::write returns when no thread holds the lock.
write(lk) == lk.writer = 0 /\ lk.readers = {}

\* A read that does not wait for the writer.
read_unguarded(lk) == TRUE

\* RwLock::read returns when no thread holds the write lock.
read(lk) == lk.writer = 0

\* MacroEnv::new
RegistryInit ==
    /\ MacroIdle
    /\ QueryIdle
    /\ lookup = <<>>
    /\ binding = <<>>
    /\ rwlock = [writer |-> 0, readers |-> {}]
    /\ heap = <<>>
    /\ dbs = <<>>
    /\ threads = [t \in 1..MaxThreads |->
                    [name |-> <<>>, pc |-> "idle", mac |-> "none",
                     before |-> "none", got |-> <<>>]]
    /\ done = [calls |-> 0, latest |-> [n \in RegistryNames |-> "none"]]

\* Thread t calls insert(name, mac): self.macros.write().unwrap()
Write(t, name, mac) ==
    /\ threads[t].pc = "idle"
    /\ done.calls < MaxCalls
    /\ write(rwlock)
    /\ rwlock' = [rwlock EXCEPT !.writer = t]
    /\ threads' = [threads EXCEPT ![t].pc = "insert_data", ![t].name = name,
                                  ![t].mac = mac]
    /\ done' = [done EXCEPT !.calls = @ + 1]
    /\ UNCHANGED macros
    /\ UNCHANGED <<evars, qvars, lookup, binding, heap, dbs>>

\* insert: .insert(name, Arc::new(mac)), the first word of the entry.
InsertData(t) ==
    /\ threads[t].pc = "insert_data"
    /\ macros' = insert_data(macros, threads[t].name, threads[t].mac)
    /\ threads' = [threads EXCEPT ![t].pc = "insert_vtable"]
    /\ UNCHANGED <<rwlock, done>>
    /\ UNCHANGED <<evars, qvars, lookup, binding, heap, dbs>>

\* insert: the second word of the entry, and the return, which drops the
\* write guard.
InsertVtable(t) ==
    /\ threads[t].pc = "insert_vtable"
    /\ macros' = insert_vtable(macros, threads[t].name, threads[t].mac)
    /\ rwlock' = [rwlock EXCEPT !.writer = 0]
    /\ threads' = [threads EXCEPT ![t].pc = "idle"]
    /\ done' = [done EXCEPT !.latest[threads[t].name] = threads[t].mac]
    /\ UNCHANGED <<evars, qvars, lookup, binding, heap, dbs>>

\* Thread t calls get(name).
Get(t, name) ==
    /\ threads[t].pc = "idle"
    /\ done.calls < MaxCalls
    /\ threads' = [threads EXCEPT ![t].pc = "read", ![t].name = name,
                                  ![t].before = done.latest[name]]
    /\ done' = [done EXCEPT !.calls = @ + 1]
    /\ UNCHANGED <<macros, rwlock>>
    /\ UNCHANGED <<evars, qvars, lookup, binding, heap, dbs>>

\* get: self.macros.read().unwrap()
Read(t) ==
    /\ threads[t].pc = "read"
    /\ read(rwlock)
    /\ rwlock' = [rwlock EXCEPT !.readers = @ \cup {t}]
    /\ threads' = [threads EXCEPT ![t].pc = "get"]
    /\ UNCHANGED <<macros, done>>
    /\ UNCHANGED <<evars, qvars, lookup, binding, heap, dbs>>

\* get: .get(name).cloned(), and the return, which drops the read guard.
GetCloned(t) ==
    /\ threads[t].pc = "get"
    /\ threads' = [threads EXCEPT
                     ![t].pc = "idle",
                     ![t].got = <<[name |-> threads[t].name,
                                   value |-> get(macros, threads[t].name),
                                   before |-> threads[t].before,
                                   latest |-> done.latest[threads[t].name]]>>]
    /\ rwlock' = [rwlock EXCEPT !.readers = @ \ {t}]
    /\ UNCHANGED <<macros, done>>
    /\ UNCHANGED <<evars, qvars, lookup, binding, heap, dbs>>

RegistryNext ==
    \/ \E t \in 1..MaxThreads : \E name \in RegistryNames :
          \E mac \in MacroImpls : Write(t, name, mac)
    \/ \E t \in 1..MaxThreads : InsertData(t)
    \/ \E t \in 1..MaxThreads : InsertVtable(t)
    \/ \E t \in 1..MaxThreads : \E name \in RegistryNames : Get(t, name)
    \/ \E t \in 1..MaxThreads : Read(t)
    \/ \E t \in 1..MaxThreads : GetCloned(t)

RegistrySpec == RegistryInit /\ [][RegistryNext]_vars

(***************************************************************************)
(* Two expansion runs, one per module, each on a thread of its own with a  *)
(* MacroExpander of its own; the runs share the registry only.  The        *)
(* futures of the run "other" complete; those of the run "stalled" need    *)
(* not.                                                                    *)
(***************************************************************************)
Runs == {"stalled", "other"}

\* The expression of a run: two calls, of the macro a! or of a function.
RunPrograms ==
    { Block(2, <<Item(1, c[1], 0, FALSE), Item(2, c[2], c[3], FALSE)>>) :
        c \in {MacroA, <<"f">>} \X {MacroA, <<"f">>} \X (0..1) }

\* A wait that returns after the first output of the stream.
wait_for_first(d, n) == IF d.next_idx > 1 \/ n = 0 THEN "ran" ELSE "wait"

\* stream::futures_ordered(..).for_each(..).wait() over n futures: it
\* returns when for_each has taken the output of every one of them.
wait(d, n) == IF d.next_idx > n THEN "ran" ELSE "wait"

\* MacroExpander::run, lines 275-283, on the expression e: the run when the
\* traversal has returned and the stream is made of the futures it
\* initiated.
traversed(reg, e) ==
    LET st == visit_expr([macros |-> reg, expr |-> e, errors |-> <<>>,
                          exprs |-> <<>>, recorded |-> 0, gen_calls |-> {}],
                         <<>>)
    IN  [expr |-> st.expr, errors |-> st.errors, exprs |-> st.exprs,
         queued |-> [i \in 1..Len(st.exprs) |->
                       [item |-> <<>>, at |-> "pending"]],
         next_idx |-> 1,
         pc |-> wait([next_idx |-> 1], Len(st.exprs)),
         result |-> [errors |-> <<>>, tag |-> "none"],
         consumed |-> <<>>, recorded |-> st.recorded]

\* Each run has traversed its expression and waits for its stream.
StallInit ==
    /\ macros = [n \in {<<"a">>} |-> "A"]
    /\ expr = Literal(DefaultSpan)
    /\ expr0 = expr
    /\ visited = expr
    /\ errors = <<>>
    /\ exprs = <<>>
    /\ queued = <<>>
    /\ next_idx = 1
    /\ pc = "off"
    /\ result = [errors |-> <<>>, tag |-> "none"]
    /\ outcome = <<>>
    /\ applied = <<>>
    /\ consumed = <<>>
    /\ recorded = 0
    /\ gen_calls = {}
    /\ QueryIdle
    /\ lookup = <<>>
    /\ binding = <<>>
    /\ rwlock = <<>>
    /\ heap = <<>>
    /\ dbs = <<>>
    /\ threads \in [Runs -> { traversed(macros, e) : e \in RunPrograms }]
    /\ done = <<>>

\* The future of site i of run t resolves and the stream of the run polls it.
RunComplete(t, i, ok) ==
    /\ threads[t].pc = "wait"
    /\ i \in 1..Len(threads[t].exprs)
    /\ threads[t].queued[i].at = "pending"
    /\ LET run == threads[t]
           site == run.exprs[i].path
           r == then_closure(GetAt(run.expr, site),
                             FutureResult(run.exprs[i].future, ok))
           d == for_each([errors |-> run.errors,
                          queued |-> [run.queued EXCEPT ![i] =
                                         [item |-> r.item, at |-> "queued"]],
                          next_idx |-> run.next_idx,
                          consumed |-> run.consumed,
                          recorded |-> run.recorded])
       IN  threads' = [threads EXCEPT
              ![t].expr = PutAt(run.expr, site, r.expr),
              ![t].errors = d.errors,
              ![t].recorded = d.recorded,
              ![t].queued = d.queued,
              ![t].next_idx = d.next_idx,
              ![t].consumed = d.consumed,
              ![t].pc = wait(d, Len(run.exprs))]
    /\ UNCHANGED <<mvars, qvars, lookup, binding, rwlock, heap, dbs, done>>

\* MacroEnv::run of run t, line 241: expander.finish()
RunFinish(t) ==
    /\ threads[t].pc = "ran"
    /\ threads' = [threads EXCEPT ![t].result = finish(threads[t].errors),
                                  ![t].pc = "done"]
    /\ UNCHANGED <<mvars, qvars, lookup, binding, rwlock, heap, dbs, done>>

StallNext ==
    \/ \E t \in Runs : \E i \in 1..2 : \E ok \in BOOLEAN : RunComplete(t, i, ok)
    \/ \E t \in Runs : RunFinish(t)

\* The code of a run goes on when it can (wait returns, finish is called),
\* and every future of the run "other" completes at some time.
StallSpec ==
    /\ StallInit
    /\ [][StallNext]_vars
    /\ \A t \in Runs : WF_vars(RunFinish(t))
    /\ \A i \in 1..2 : WF_vars(\E ok \in BOOLEAN : RunComplete("other", i, ok))

(***************************************************************************)
(* CompilerDatabase::get_global and get_binding: the resolution of a       *)
(* dotted name to a field of a Global.  Names are sequences of characters. *)
(***************************************************************************)
\* The number of dot-separated segments of the names that are resolved.
MaxSegments == 4

\* The number of '@' characters a name may begin with.
MaxAts == 1

\* Types: a primitive type, a record type with its fields in row order, and
\* an alias that remove_aliases resolves.
IntType(n) == [kind |-> "Int", n |-> n]

RecordType(fields) == [kind |-> "Record", fields |-> fields]

AliasType(alias) == [kind |-> "Alias", alias |-> alias]

Field(name, typ) == [name |-> name, typ |-> typ]

\* The aliases of the environment: T = { x : U } and U = { y : Int }.
Aliases ==
    [a \in {"T", "U"} |->
        IF a = "T" THEN RecordType(<<Field(<<"x">>, AliasType("U"))>>)
        ELSE RecordType(<<Field(<<"y">>, IntType(1))>>)]

\* The Globals the database knows: module a of type
\* { x : { y : Int }, (+) : Int } and module a.b of type T.
KnownGlobals ==
    [g \in {<<"a">>, <<"a", ".", "b">>} |->
        IF g = <<"a">>
        THEN RecordType(<<Field(<<"x">>,
                               RecordType(<<Field(<<"y">>, IntType(2))>>)),
                          Field(<<"+">>, IntType(3))>>)
        ELSE AliasType("T")]

\* self.global(name): the Global of that name, if there is one.
find_global(name) ==
    IF name \in DOMAIN KnownGlobals THEN <<KnownGlobals[name]>> ELSE <<>>

\* ast::is_operator_char
OperatorChars ==
    {"!", "#", "$", "%", "&", "*", "+", "-", ".", "/", "<", "=", ">", "?",
     "@", "\\", "^", "|", "~", ":"}

RECURSIVE trim_start_matches(_, _)
\* str::trim_start_matches(c)
trim_start_matches(str, c) ==
    IF str # <<>> /\ Head(str) = c THEN trim_start_matches(Tail(str), c)
    ELSE str

\* str::find('.'): the index of the first dot, 0 when there is none.
find_dot(str) ==
    IF \E i \in 1..Len(str) : str[i] = "."
    THEN CHOOSE i \in 1..Len(str) :
             str[i] = "." /\ \A j \in 1..(i - 1) : str[j] # "."
    ELSE 0

\* Name::module: the name without its last segment, empty when the name
\* has one segment.
name_module(str) ==
    IF \E i \in 1..Len(str) : str[i] = "."
    THEN SubSeq(str, 1,
                (CHOOSE i \in 1..Len(str) :
                    str[i] = "." /\ \A j \in (i + 1)..Len(str) : str[j] # ".")
                - 1)
    ELSE <<>>

RECURSIVE components(_)
\* Name::components: the segments between the dots, in order.
components(str) ==
    IF str = <<>> THEN <<>>
    ELSE IF find_dot(str) = 0 THEN <<str>>
    ELSE <<SubSeq(str, 1, find_dot(str) - 1)>>
         \o components(SubSeq(str, find_dot(str) + 1, Len(str)))

RECURSIVE reduce_module(_)
\* get_global, the loop: the module path is reduced by one segment until
\* it names a Global or is empty.
reduce_module(path) ==
    IF path = <<>> THEN <<>>
    ELSE IF find_global(path) # <<>> THEN path
    ELSE reduce_module(name_module(path))

\* get_global that looks up the whole name only.
get_global_of_whole_name(name) ==
    LET path == trim_start_matches(name, "@")
        found == IF find_global(path) # <<>> THEN path ELSE <<>>
        remaining_offset == IF Len(name) <= Len(found) + 1 THEN Len(name)
                            ELSE Len(found) + 1
    IN  IF found = <<>> THEN <<>>
        ELSE <<[path |-> found, typ |-> find_global(found)[1],
                remaining |-> SubSeq(name, remaining_offset + 1, Len(name))]>>

\* CompilerDatabase::get_global: the Global found (here its type, and the
\* path that named it) and the remaining fields, or nothing.
get_global(name) ==
    LET found == reduce_module(trim_start_matches(name, "@"))
        remaining_offset == IF Len(name) <= Len(found) + 1 THEN Len(name)
                            ELSE Len(found) + 1
    IN  IF found = <<>> THEN <<>>
        ELSE <<[path |-> found, typ |-> find_global(found)[1],
                remaining |-> SubSeq(name, remaining_offset + 1, Len(name))]>>

RECURSIVE remove_aliases(_)
\* resolve::remove_aliases
remove_aliases(typ) ==
    IF typ.kind = "Alias" THEN remove_aliases(Aliases[typ.alias]) ELSE typ

\* typ.row_iter(): the fields of a record type, none for any other type.
row_iter(typ) == IF typ.kind = "Record" THEN typ.fields ELSE <<>>

\* The results of get_binding.
Ok(typ) == [tag |-> "Ok", typ |-> typ, field |-> <<>>]

UndefinedBinding == [tag |-> "UndefinedBinding", typ |-> IntType(0), field |-> <<>>]

UndefinedField(typ, field) == [tag |-> "UndefinedField", typ |-> typ, field |-> field]

Message == [tag |-> "Message", typ |-> IntType(0), field |-> <<>>]

\* Whether a segment is enclosed in parentheses.
in_parens(str) == Len(str) >= 2 /\ Head(str) = "(" /\ str[Len(str)] = ")"

RECURSIVE get_fields(_, _, _)
\* get_binding, the loop over remaining_fields.components() from the k-th
\* on, with the type reached so far.
get_fields(fields, k, typ) ==
    IF k > Len(fields) THEN Ok(typ)
    ELSE LET field_name == IF in_parens(fields[k])
                           THEN SubSeq(fields[k], 2, Len(fields[k]) - 1)
                           ELSE fields[k]
             row == row_iter(remove_aliases(typ))
         IN  IF ~in_parens(fields[k])
                /\ \E i \in 1..Len(field_name) : field_name[i] \in OperatorChars
             THEN Message
             ELSE IF \E i \in 1..Len(row) : row[i].name = field_name
             THEN get_fields(fields, k + 1,
                      row[CHOOSE i \in 1..Len(row) : row[i].name = field_name].typ)
             ELSE UndefinedField(remove_aliases(typ), field_name)

\* get_binding that returns the Global itself whatever fields remain.
get_binding_ignoring_fields(found) ==
    IF found = <<>> THEN UndefinedBinding ELSE Ok(found[1].typ)

\* get_binding after get_global returned `found`.
get_binding_of(found) ==
    IF found = <<>> THEN UndefinedBinding
    ELSE IF found[1].remaining = <<>> THEN Ok(found[1].typ)
    ELSE get_fields(components(found[1].remaining), 1, found[1].typ)

\* CompilerDatabase::get_binding
get_binding(name) == get_binding_of(get_global(name))

(***************************************************************************)
(* The resolution of one name.                                             *)
(***************************************************************************)
\* The segments a name is made of.
Segments == {<<>>, <<"a">>, <<"b">>, <<"x">>, <<"y">>, <<"+">>, <<"(", "+", ")">>}

RECURSIVE Joined(_)
\* The segments of a sequence, joined with dots.
Joined(segs) ==
    IF Len(segs) = 1 THEN segs[1]
    ELSE segs[1] \o <<".">> \o Joined(Tail(segs))

\* The names that are resolved.
Names ==
    { [i \in 1..ats |-> "@"] \o Joined(segs) :
        ats \in 0..MaxAts,
        segs \in UNION { [1..n -> Segments] : n \in 1..MaxSegments } }

BindingInit ==
    /\ MacroIdle
    /\ QueryIdle
    /\ lookup \in { [name |-> n, pc |-> "call", found |-> <<>>] : n \in Names }
    /\ binding = <<>>
    /\ rwlock = <<>>
    /\ heap = <<>>
    /\ dbs = <<>>
    /\ threads = <<>>
    /\ done = <<>>

\* get_binding(name) is called and returns.
GetBinding ==
    /\ lookup.pc = "call"
    /\ lookup' = [lookup EXCEPT !.found = get_global(lookup.name), !.pc = "done"]
    /\ binding' = get_binding(lookup.name)
    /\ UNCHANGED <<mvars, qvars, rwlock, svars>>

BindingNext == GetBinding

BindingSpec == BindingInit /\ [][BindingNext]_vars

C12_ImportSweepsThreeCaches ==
    /\ last.calls.gcs = Cardinality(last.calls.imports)
    /\ (last.q = "import" /\ last.m \in last.calls.imports) =>
          \A k \in DerivedKeys : k.q \in SweptQueries => ~db.memo[k].has_value
    /\ \A k \in DerivedKeys :
          (k.q \notin SweptQueries /\ db.memo[k].state = "Memoized")
              => db.memo[k].has_value

\* An import that failed for lack of a source has run after a module was
\* compiled, and it collected the garbage.
C12_Witness ==
    /\ last.q = "import"
    /\ last.m \in last.calls.imports
    /\ ~last.value.ok
    /\ last.calls.gcs = 1
    /\ \E m \in Modules :
          /\ db.memo[Key("compiled_module", m)].state = "Memoized"
          /\ db.memo[Key("compiled_module", m)].deps # <<>>
          /\ symbol_module(last.m) # m
          /\ since[m].has

\* The loader has the source of module m and of every module m depends on.
HasSources(m) ==
    \A x \in {m} \cup Reach(m) : filename(x) \in DOMAIN sources

\* C13: a module that fails to compile does not poison the queries of the
\* other modules: global(B) of a registered module B that has its sources
\* yields the Global of B, and globals() yields the Global of every
\* registered module that has its sources, whatever the other registered
\* modules are.
C13_FailedModuleDoesNotPoisonGlobals ==
    /\ (last.q = "global" /\ last.m \in DOMAIN db.input /\ HasSources(last.m))
          => (last.value.ok /\ last.value.name = last.m)
    /\ last.q = "globals" =>
          /\ last.value.ok
          /\ \A m \in DOMAIN db.input :
                HasSources(m) => \E g \in last.value.uses : g.id = m

\* What module_text returns when the loader has no source.
LoadError == Value(FALSE, 0, NoText, "load", <<>>, {})

\* C14: when module_text(m) fails, typechecked_module(m) and
\* compiled_module(m) return its error and neither the type checker nor
\* the compiler runs on m; when typechecked_module(m) fails,
\* compiled_module(m) returns its error and the compiler does not run on m;
\* and a module that has its sources is compiled whatever failed before.
C14_DependencyErrorsShortCircuit ==
    LET m == last.m
        text == db.memo[Key("module_text", m)]
        checked == db.memo[Key("typechecked_module", m)]
    IN  /\ (last.q \in {"typechecked_module", "compiled_module"}
              /\ filename(m) \notin DOMAIN sources) =>
                /\ last.value = LoadError
                /\ text.has_value => text.value = last.value
                /\ last.calls.checks[m] = 0
                /\ last.calls.compiles[m] = 0
        /\ (last.q = "compiled_module" /\ checked.has_value
              /\ ~checked.value.ok) =>
                /\ last.value = checked.value
                /\ last.calls.compiles[m] = 0
        /\ (last.q = "compiled_module" /\ HasSources(m)) => last.value.ok

\* compiled_module(a) returned the error of its type check, which failed
\* on the import of a module without source, after compiled_module(s.b)
\* had returned the load error, and the type checker ran on a only.
C14_Witness ==
    /\ last.q = "compiled_module"
    /\ last.m = ModA
    /\ db.memo[Key("typechecked_module", ModA)].has_value
    /\ last.value = db.memo[Key("typechecked_module", ModA)].value
    /\ ~last.value.ok
    /\ last.calls.checks[ModA] = 1
    /\ last.calls.compiles[ModA] = 0
    /\ since[ModB].has
    /\ since[ModB].value = LoadError

(***************************************************************************)
(* Properties of get_global and get_binding.                               *)
(***************************************************************************)
\* Whether the (alias-resolved) record type has a field of that name.
HasField(typ, name) ==
    \E i \in 1..Len(row_iter(remove_aliases(typ))) :
        row_iter(remove_aliases(typ))[i].name = name

\* The type of that field.
FieldType(typ, name) ==
    LET row == row_iter(remove_aliases(typ))
    IN  row[CHOOSE i \in 1..Len(row) : row[i].name = name].typ

RECURSIVE Missing(_, _, _)
\* The index of the first of the segments, from the k-th on, that is no
\* field of the type reached so far; 0 when every segment is one.
Missing(typ, segs, k) ==
    IF k > Len(segs) THEN 0
    ELSE IF ~HasField(typ, segs[k]) THEN k
    ELSE Missing(FieldType(typ, segs[k]), segs, k + 1)

\* A segment without the parentheses that enclose it.
Plain(seg) == IF in_parens(seg) THEN SubSeq(seg, 2, Len(seg) - 1) ELSE seg

\* The index of the first segment that is not in parentheses and holds an
\* operator character; 0 when there is none.
FirstOperator(segs) ==
    LET ops == { k \in 1..Len(segs) :
                   /\ ~in_parens(segs[k])
                   /\ \E i \in 1..Len(segs[k]) : segs[k][i] \in OperatorChars }
    IN  IF ops = {} THEN 0 ELSE CHOOSE k \in ops : \A j \in ops : k <= j

Prefixes(str) ==
    { SubSeq(str, 1, i) : i \in { j \in 1..Len(str) :
                                    j = Len(str) \/ str[j + 1] = "." } }

\* Those that are known Globals, for a name without its leading '@'.
KnownPrefixes(name) ==
    Prefixes(trim_start_matches(name, "@")) \cap DOMAIN KnownGlobals

\* C16: get_global resolves a name (without its leading '@') to the Global
\* of its longest dot-separated prefix that is a known Global, the whole
\* name included, and get_binding fails with UndefinedBinding exactly when
\* no non-empty prefix is a known Global.
C16_LongestKnownPrefix ==
    lookup.pc = "done" =>
        /\ (binding.tag = "UndefinedBinding") <=> (KnownPrefixes(lookup.name) = {})
        /\ (lookup.found = <<>>) <=> (KnownPrefixes(lookup.name) = {})
        /\ lookup.found # <<>> =>
              /\ lookup.found[1].path \in KnownPrefixes(lookup.name)
              /\ \A p \in KnownPrefixes(lookup.name) :
                    Len(p) <= Len(lookup.found[1].path)
              /\ lookup.found[1].typ = KnownGlobals[lookup.found[1].path]

\* The name a.b.x.y was resolved: its prefixes a and a.b are both known
\* Globals and it resolved to a.b, after a.b.x.y and a.b.x were tried.
C16_Witness ==
    /\ lookup.pc = "done"
    /\ lookup.name = <<"a", ".", "b", ".", "x", ".", "y">>
    /\ Cardinality(KnownPrefixes(lookup.name)) = 2
    /\ lookup.found # <<>>
    /\ lookup.found[1].path = <<"a", ".", "b">>
    /\ binding.tag = "Ok"

(***************************************************************************)
(* Properties of the snapshots and of the State they share.                *)
(***************************************************************************)
\* What a State holds for module a: the text registered (0 for none) and
\* the counter in module_states (-1 for none).
TextOf(st) == IF ModA \in DOMAIN st.files THEN st.files[ModA] ELSE 0

CounterOf(st) ==
    IF ModA \in DOMAIN st.module_states THEN st.module_states[ModA] ELSE -1

\* C17: the original database and its snapshots point to one State, which
\* is never copied: a thread that reads the State through any of them sees
\* every module registered, every counter bumped and every error appended
\* so far through any of them.
C17_SnapshotsShareOneState ==
    /\ Len(heap) = 1
    /\ \A h \in 1..Len(dbs) : dbs[h].state = dbs[1].state
    /\ \A t \in 1..MaxThreads :
          threads[t].seen # <<>> =>
              /\ TextOf(threads[t].seen[1].state)
                     = threads[t].seen[1].done.registered
              /\ CounterOf(threads[t].seen[1].state)
                     = threads[t].seen[1].done.registered - 1
              /\ Len(threads[t].seen[1].state.errors)
                     = threads[t].seen[1].done.reported

\* A thread read the State through a database through which nothing was
\* changed, after a module was registered and an error appended through
\* another, and saw both.
C17_Witness ==
    /\ Len(dbs) = 2
    /\ \E t \in 1..MaxThreads :
          /\ threads[t].seen # <<>>
          /\ threads[t].seen[1].db \notin threads[t].seen[1].done.through
          /\ threads[t].seen[1].done.registered = 1
          /\ threads[t].seen[1].done.reported = 1
          /\ TextOf(threads[t].seen[1].state) = 1
          /\ Len(threads[t].seen[1].state.errors) = 1

\* C18: at most one thread is inside new_module on a State, and it holds
\* the mutex of that State; and the State that any thread reads holds the
\* text of a module together with the counter of that text: the k-th text
\* with the counter k - 1, and no text with no counter.
C18_TextAndCounterChangeTogether ==
    /\ \A a \in 1..Len(heap) :
          LET inside == { t \in 1..MaxThreads :
                            /\ threads[t].pc \in {"add_filemap", "entry"}
                            /\ threads[t].cell = a }
          IN  /\ Cardinality(inside) <= 1
              /\ inside # {} => heap[a].held \in inside
              /\ inside = {} => heap[a].held = 0
    /\ \A t \in 1..MaxThreads :
          threads[t].seen # <<>> =>
              CounterOf(threads[t].seen[1].state)
                  = TextOf(threads[t].seen[1].state) - 1

\* A thread is inside new_module, between add_filemap and the entry in
\* module_states: the State holds the second text with the counter of the
\* first, and the other thread has read the State before.
C18_Witness ==
    \E t, u \in 1..MaxThreads :
        /\ t # u
        /\ threads[t].pc = "entry"
        /\ TextOf(heap[threads[t].cell].state) = 2
        /\ CounterOf(heap[threads[t].cell].state) = 0
        /\ threads[u].seen # <<>>
        /\ TextOf(threads[u].seen[1].state) = 1

(***************************************************************************)
(* Properties of the macro registry.                                       *)
(***************************************************************************)
\* What get returns for a name whose most recent finished insert registered
\* the implementation mac ("none": no insert of the name has finished).
Registered(mac) == IF mac = "none" THEN <<>> ELSE <<ArcNew(mac)>>

\* C19: get(name) returns the implementation of the most recent insert of
\* the name, and None when the name was never inserted; a get that runs
\* while threads insert returns what was registered when it was called or a
\* whole implementation that was inserted since, never a part of an entry.
C19_GetReturnsLatestInsert ==
    \A t \in 1..MaxThreads :
        threads[t].got # <<>> =>
            /\ threads[t].got[1].value = Registered(threads[t].got[1].latest)
            /\ \/ threads[t].got[1].value = Registered(threads[t].got[1].before)
               \/ \E mac \in MacroImpls :
                     threads[t].got[1].value = <<ArcNew(mac)>>

\* A get was called when A was registered under the name, waited while
\* another thread inserted B under the name, and returned B.
C19_Witness ==
    \E t \in 1..MaxThreads :
        /\ threads[t].got # <<>>
        /\ threads[t].got[1].before = "A"
        /\ threads[t].got[1].value = <<ArcNew("B")>>

(***************************************************************************)
(* Properties of the derive attributes of a type binding group.            *)
(***************************************************************************)
\* The (binding, attribute) pairs of the derive attributes of a group.
DeriveAttributes(binds) ==
    UNION { { <<binds[k].span, i>> :
                i \in { j \in 1..Len(binds[k].attrs) :
                           binds[k].attrs[j].name = "derive" } } :
            k \in 1..Len(binds) }

\* C20: when the traversal has visited a type binding group, the generator
\* has been invoked once for every derive attribute of every binding of the
\* group (k times for a binding with k derive attributes), and every binding
\* that an invocation generated is among the recursive bindings put ahead
\* of the body of the group.
C20_EveryDeriveAttributeGenerates ==
    (pc # "start" /\ expr0.kind = "TypeBindings") =>
        /\ gen_calls = DeriveAttributes(expr0.binds)
        /\ \A k \in 1..Len(expr0.binds) :
              \A i \in 1..Len(expr0.binds[k].attrs) :
                  (/\ expr0.binds[k].attrs[i].name = "derive"
                   /\ expr0.binds[k].attrs[i].gen = "ok") =>
                      /\ visited.kids[1].kind = "LetBindings"
                      /\ \E b \in 1..Len(visited.kids[1].binds) :
                            visited.kids[1].binds[b]
                                = [derived |-> expr0.binds[k].attrs[i].arg,
                                   for |-> expr0.binds[k].span]

\* The bindings of a group for which derive::generate was called and
\* returned ok.
GeneratedFor(binds, ok) ==
    { k \in 1..Len(binds) :
        \E i \in 1..Len(binds[k].attrs) :
            /\ <<binds[k].span, i>> \in gen_calls
            /\ (binds[k].attrs[i].gen = "ok") = ok }

\* C21: when the traversal has visited a type binding group and the
\* generation failed for a binding of it, the error list holds exactly one
\* error with the span of the name of that binding, and every binding
\* generated for a sibling is in a recursive let that stands where the body
\* of the group stood and has that body as its own.
C21_DeriveFailureKeepsSiblings ==
    (pc # "start" /\ expr0.kind = "TypeBindings") =>
        \A k \in GeneratedFor(expr0.binds, FALSE) :
            /\ Cardinality({ a \in 1..Len(errors) :
                               errors[a].span = expr0.binds[k].span }) = 1
            /\ \E a \in 1..Len(errors) :
                  /\ errors[a].span = expr0.binds[k].span
                  /\ errors[a].value.msg = "derive failed"
            /\ \A j \in GeneratedFor(expr0.binds, TRUE) :
                  /\ visited.kids[1].kind = "LetBindings"
                  /\ visited.kids[1].kids[1] = expr0.kids[1]
                  /\ \E i \in 1..Len(expr0.binds[j].attrs) :
                        /\ <<expr0.binds[j].span, i>> \in gen_calls
                        /\ \E b \in 1..Len(visited.kids[1].binds) :
                              visited.kids[1].binds[b]
                                  = [derived |-> expr0.binds[j].attrs[i].arg,
                                     for |-> expr0.binds[j].span]

\* The generation failed for the first binding of a group and succeeded for
\* its sibling: the run has returned with the error of the first and the
\* generated binding of the second.
C21_Witness ==
    /\ pc = "done"
    /\ expr0.kind = "TypeBindings"
    /\ GeneratedFor(expr0.binds, FALSE) = {1}
    /\ GeneratedFor(expr0.binds, TRUE) = {2}
    /\ visited.kids[1].kind = "LetBindings"
    /\ Len(visited.kids[1].binds) = 1

(***************************************************************************)
(* Properties of module_text when the loader fails.                        *)
(***************************************************************************)
\* What a State holds for a module: its file map and its revision counter,
\* each a sequence of at most one.
ModuleRecord(st, m) ==
    [text |-> IF m \in DOMAIN st.files THEN <<st.files[m]>> ELSE <<>>,
     counter |-> IF m \in DOMAIN st.module_states
                 THEN <<st.module_states[m]>> ELSE <<>>]

\* A step in which the embedder asks for the value of a query.
IsRequest ==
    /\ steps' = steps + 1
    /\ sources' = sources
    /\ db'.rev = db.rev

\* C22: a request during which the loader has no source for a module leaves
\* what the State holds for that module as it was (no file map registered,
\* the counter neither created nor bumped); and when the request is
\* module_text of that module and the function ran, it returns the load
\* error and the State is unchanged.
C22_FailedLoadLeavesState ==
    [][IsRequest =>
          \A m \in Modules :
              filename(m) \notin DOMAIN sources =>
                  /\ ModuleRecord(state', m) = ModuleRecord(state, m)
                  /\ (/\ last'.q = "module_text"
                      /\ last'.m = m
                      /\ last'.calls.loads[m] > 0) =>
                          /\ last'.value = LoadError
                          /\ state' = state]_vars

\* module_text(a) ran and returned the load error for a module that was
\* loaded before its source was lost: its file map and its counter, 0, are
\* still those of the first load.
C22_Witness ==
    /\ last.q = "module_text"
    /\ last.m = ModA
    /\ last.calls.loads[ModA] = 1
    /\ last.value = LoadError
    /\ filename(ModA) \notin DOMAIN sources
    /\ ModuleRecord(state, ModA).counter = <<0>>
    /\ ModuleRecord(state, ModA).text # <<>>

(***************************************************************************)
(* Termination of the expansion runs.                                      *)
(***************************************************************************)
\* Run t has returned and every site of its worklist holds an expansion.
Returned(t) ==
    /\ threads[t].pc = "done"
    /\ \A i \in 1..Len(threads[t].exprs) :
          GetAt(threads[t].expr, threads[t].exprs[i].path).kind
              = "MacroExpansion"

\* C23: a run whose futures all complete at some time returns at some time,
\* with every site of its worklist substituted, whatever becomes of the
\* futures of the run of another module.
C23_RunOfCompletingFuturesReturns == <>Returned("other")

\* The run "other" has returned with its two sites substituted while the
\* run "stalled" waits for its futures, none of which has completed.
C23_Witness ==
    /\ Returned("other")
    /\ Len(threads["other"].exprs) = 2
    /\ threads["stalled"].pc = "wait"
    /\ \A i \in 1..Len(threads["stalled"].exprs) :
          threads["stalled"].queued[i].at = "pending"

(***************************************************************************)
(* Properties of the identifier an import resolves to.                     *)
(***************************************************************************)
\* The name with the reserved prefix.
Prefixed(m) == <<"@">> \o m

\* The memo of import(n) holds the identifier of a successful import.
Imported(n) ==
    /\ db.memo[Key("import", n)].has_value
    /\ db.memo[Key("import", n)].value.ok

\* C24: a successful import(m) returns the identifier '@' + m for a name
\* without the prefix and m for a name with it; normalizing a normalized
\* name changes nothing; import(m) and import('@' + m) return the same
\* identifier; and the import of a module that compiled_module has loaded
\* before in this revision succeeds.
C24_ImportNormalizesName ==
    /\ \A m \in Modules :
          /\ Imported(m) => db.memo[Key("import", m)].value.name = Prefixed(m)
          /\ Imported(Prefixed(m)) =>
                db.memo[Key("import", Prefixed(m))].value.name = Prefixed(m)
          /\ import_symbol(import_symbol(m)) = import_symbol(m)
          /\ import_symbol(Prefixed(m)) = import_symbol(m)
    /\ (last.q = "import" /\ last.value.ok) =>
          last.value.name = IF last.m[1] = "@" THEN last.m ELSE Prefixed(last.m)
    /\ (/\ last.q = "import"
        /\ since[symbol_module(last.m)].has
        /\ since[symbol_module(last.m)].value.ok) =>
            /\ last.value.ok
            /\ last.value.name = Prefixed(symbol_module(last.m))

\* compiled_module(a) loaded the module, import(a) resolved it, and
\* import(@a) has returned the identifier that import(a) returned.
C24_Witness ==
    /\ last.q = "import"
    /\ last.m = Prefixed(ModA)
    /\ last.value.ok
    /\ Imported(ModA)
    /\ db.memo[Key("import", ModA)].value.name = last.value.name
    /\ since[ModA].has
    /\ since[ModA].value.ok

(***************************************************************************)
(* Properties of the revision counter of a module in the State.            *)
(***************************************************************************)
\* The number of new_module calls for module m that a step makes: a
\* request calls it once for every source of m the loader produced.
NewModuleCalls(m) ==
    IF IsRequest /\ filename(m) \in DOMAIN sources
    THEN last'.calls.loads[m] ELSE 0

\* C25: in every step, the counter of a module in the State is 0 after the
\* first new_module call for the module and one more after every later
\* call; no step without such a call changes it, and a counter that exists
\* is neither removed nor decreased.
C25_CounterCountsNewModuleCalls ==
    [][\A m \in Modules :
          LET before == ModuleRecord(state, m).counter
              after == ModuleRecord(state', m).counter
          IN  /\ before # <<>> => (after # <<>> /\ after[1] >= before[1])
              /\ after = IF NewModuleCalls(m) = 0 THEN before
                         ELSE IF before = <<>> THEN <<NewModuleCalls(m) - 1>>
                         ELSE <<before[1] + NewModuleCalls(m)>>]_vars

\* module_text(a) has called new_module for a module that was registered
\* before: the counter of a is 1.
C25_Witness ==
    /\ last.q = "module_text"
    /\ last.m = ModA
    /\ last.calls.loads[ModA] = 1
    /\ last.value.ok
    /\ ModuleRecord(state, ModA).counter = <<1>>

(***************************************************************************)
(* Properties of the remaining fields of get_global.                       *)
(***************************************************************************)
\* C26: when get_global has found a Global for a name, the remaining fields
\* are what follows the matched prefix in the name without its leading '@':
\* nothing when the whole name matched, and otherwise the matched prefix, a
\* dot and the remaining fields make up that name.
C26_RemainingFollowsPrefix ==
    (lookup.pc = "done" /\ lookup.found # <<>>) =>
        IF lookup.found[1].path = trim_start_matches(lookup.name, "@")
        THEN lookup.found[1].remaining = <<>>
        ELSE lookup.found[1].path \o <<".">> \o lookup.found[1].remaining
                = trim_start_matches(lookup.name, "@")

(***************************************************************************)
(* Properties of the worklist of one traversal.                            *)
(***************************************************************************)
\* The node at path q is the node at path p or lies inside it.
Inside(p, q) == Len(p) <= Len(q) /\ SubSeq(q, 1, Len(p)) = p

\* The paths of the nodes inside a node, from the path of the node.
RECURSIVE PathsFrom(_, _)
PathsFrom(e, p) ==
    {p} \cup UNION { PathsFrom(e.kids[k], Append(p, k)) : k \in DOMAIN e.kids }

\* C27: no site of the worklist lies inside another site: nothing inside a
\* node that was dispatched to a macro, its callee and its arguments
\* included, is a site.
C27_SitesAreDisjoint ==
    pc # "start" =>
        /\ \A i, j \in Sites :
              i # j => ~Inside(exprs[i].path, exprs[j].path)
        /\ \A i \in Sites :
              \A q \in PathsFrom(PreNode(i), exprs[i].path) :
                  q # exprs[i].path => \A j \in Sites : exprs[j].path # q

\* A call of the macro a! was dispatched whose argument is a call of a!
\* again: the argument is no site, and the run has replaced the outer call.
C27_Witness ==
    /\ pc = "done"
    /\ \E i \in Sites :
          /\ Len(PreNode(i).kids) = 2
          /\ is_macro_call(PreNode(i).kids[2])
          /\ strip_bang(PreNode(i).kids[2].kids[1].name) \in DOMAIN macros
          /\ \A j \in Sites : exprs[j].path # Append(exprs[i].path, 2)
          /\ SiteNode(i).kind = "MacroExpansion"

(***************************************************************************)
(* Properties of the order of the error list.                              *)
(***************************************************************************)
\* The block of the top-level items of the traversed expression.
ItemBlock ==
    IF visited.kind = "Block" THEN visited
    ELSE IF visited.kids[1].kind = "LetBindings" THEN visited.kids[1].kids[1]
    ELSE visited.kids[1]

RECURSIVE ImplicitErrorsFrom(_)
\* The errors of the items k.. that are macro calls with implicit
\* arguments, in the order of the items.
ImplicitErrorsFrom(k) ==
    IF k > Len(ItemBlock.kids) THEN <<>>
    ELSE (IF is_macro_call(ItemBlock.kids[k]) /\ ItemBlock.kids[k].implicit # 0
          THEN <<ImplicitError(ItemBlock.kids[k])>>
          ELSE <<>>) \o ImplicitErrorsFrom(k + 1)

\* The error of the failed generation of a binding, none when it has no
\* derive attribute or its generation succeeded.
DeriveError(bind) ==
    IF \E i \in 1..Len(bind.attrs) :
           <<bind.span, i>> \in gen_calls /\ bind.attrs[i].gen = "err"
    THEN <<Spanned(bind.span,
                   [msg |-> "derive failed",
                    by |-> bind.attrs[CHOOSE i \in 1..Len(bind.attrs) :
                                        /\ <<bind.span, i>> \in gen_calls
                                        /\ bind.attrs[i].gen = "err"].arg])>>
    ELSE <<>>

RECURSIVE DeriveErrorsFrom(_)
\* The errors of the failed generations of the bindings k.. of the group,
\* in the order of the bindings.
DeriveErrorsFrom(k) ==
    IF k > Len(expr0.binds) THEN <<>>
    ELSE DeriveError(expr0.binds[k]) \o DeriveErrorsFrom(k + 1)

\* C28: whatever the order in which the futures complete, the error list is
\* made of the errors of the traversal in traversal order (the derive
\* failures of the group, then the implicit-argument errors of the calls),
\* followed by the failures of the expansions taken so far in the order of
\* the worklist.
C28_ErrorsInTraversalThenWorklistOrder ==
    pc # "start" =>
        errors = DeriveErrorsFrom(1) \o ImplicitErrorsFrom(1)
                     \o FailuresFrom(1, next_idx)

\* A run has returned whose second and first site failed in that order,
\* after a derive failure and an implicit-argument error of the traversal:
\* the list holds the four errors.
C28_Witness ==
    /\ pc = "done"
    /\ applied = <<2, 1>>
    /\ outcome[1] = "err"
    /\ outcome[2] = "err"
    /\ DeriveErrorsFrom(1) # <<>>
    /\ ImplicitErrorsFrom(1) # <<>>
    /\ Len(errors) = 4

====
